---- MODULE Spec2Model ----
(***************************************************************************)
(* polyscalp: the paper ledger (bot/execution.py), the scalp engine        *)
(* (bot/scalp_mode.py), the sizer and tick helpers (bot/risk.py), the      *)
(* entry rule (bot/strategy.py), the window scanner (bot/scanner.py) and   *)
(* the rotation loop (bot/runtime.py, main.py).                            *)
(*                                                                         *)
(* Units.  Prices are in mils (0.001 USD), so 0.83 is 830 and the 1c tick  *)
(* is 10.  Quantities are in lots of 0.0001 share, the engine's minimum    *)
(* quantity.  Money is in mil-lots (1e-7 USD).  Average cost and realized  *)
(* P&L are exact rationals <<numerator, denominator>>.  Wall-clock time is *)
(* counted in slots of 0.2 s, the loop's sleep; the code only ever reads   *)
(* differences now - created_ts and now - entry_ts, which are kept as ages.*)
(* Percentages (bet fraction, tp/sl) are in whole percent.                 *)
(***************************************************************************)
EXTENDS Integers, Sequences, FiniteSets, TLC

VARIABLES
    \* PaperExecution
    cash, inv, avg_cost, realized_pnl, wins, losses, orders,
    \* shared price_cache of the rotation loop
    price_cache,
    \* ScalpMode (the current engine instance)
    risk, book, pos, bet_frac,
    \* rotation loop: current market, its clock, the loop task's position
    market, tte, pc, sleep_left, polls, exit_oid,
    \* history kept for the properties: who placed each order, and the
    \* number of on_trade_closed(won=True) / (won=False) calls, and how the
    \* last scan ended
    placed_by, closed_won, closed_lost, last_scan,
    \* scanner: the metadata service's answers, what the scan returned and
    \* whether it called the search
    gamma, scanned, searched,
    \* BotRuntime: _task, the run-loop tasks, _stop_evt, the stop() calls
    \* suspended at "await self._task", the feed tasks alive, and the number
    \* of stop() calls that have returned
    rt_task, tasks, stop_evt, stoppers, feeds, stops_completed,
    \* persistence: the state file, the time since _last_save_ts, and
    \* the outcome of the last operation's save
    file, last_save_age, save_result, save_raised, save_failed, loads,
    \* strategy: the arguments of a call of pick_entry_side_price_only, and
    \* what it returned
    pick_args, picked,
    \* risk: the arguments of a call of round_to_tick, and what it returned
    tick_args, ticked,
    \* BotRuntime: self.snapshot, the statuses published by the latest step
    \* that published, whether _seq has moved since the status consumer's
    \* last_seq, and the snapshot wait_for_update last returned to it
    rt_snapshot, rt_pubs, seq_moved, seen

ledgerVars == <<cash, inv, avg_cost, realized_pnl, wins, losses, orders>>
engineVars == <<risk, book, pos, bet_frac>>
loopVars == <<market, tte, pc, sleep_left, polls, exit_oid>>
histVars == <<placed_by, closed_won, closed_lost, last_scan>>
scanVars == <<gamma, scanned, searched>>
rtVars == <<rt_task, tasks, stop_evt, stoppers, feeds, stops_completed>>
storeVars == <<file, last_save_age, save_result, save_raised, save_failed, loads>>
pickVars == <<pick_args, picked>>
tickVars == <<tick_args, ticked>>
statusVars == <<rt_snapshot, rt_pubs, seq_moved, seen>>
extVars == <<scanVars, rtVars, storeVars, pickVars, tickVars, statusVars>>
vars == <<ledgerVars, price_cache, engineVars, loopVars, histVars, extVars>>

---------------------------------------------------------------------------
\* Bounds of the model

MaxMarkets == 2
MaxOrders == 4
MaxOrdersRot == 2
StartCash == 100000
MaxLedgerOrders == 2
SizerMaxFrac == 3
SizerMaxStep == 2
MaxCloses == 3
MaxTasks == 3
MaxStoppers == 2
MaxStops == 3
MaxStoreOrders == 2
MaxDustOrders == 3
MaxProbe == 3
MaxEvents == 1
\* EntryRules.entry_ttl_seconds is 20 s, 100 slots of 0.2 s.  The model keeps
\* it above the fill delay and shortens it: nothing else reads its value.
entry_ttl_seconds == 7

---------------------------------------------------------------------------
\* Program constants

None == -1
One == 100 * 10
MoneyPerUsd == 1000 * 10000
fill_delay_sec == 5
tick == 10
price_min == 810
price_max == 850
max_spread == 10
tte_max_seconds == 420
PollCount == 10
SleepStep == 1
SleepRollover == 2
rollover_grace_sec == 2
min_tte == 120
max_tte == 1200
MinQty == 1
save_debounce == 3

ScalpRisk == [tp_pct |-> 10, sl_pct |-> 10, bet_frac_start |-> 50,
              bet_frac_step |-> 1, bet_frac_min |-> 1, bet_frac_max |-> 50,
              stake_cap_usd |-> 1000, tick |-> tick]

---------------------------------------------------------------------------
\* Arithmetic helpers

Min(a, b) == IF a <= b THEN a ELSE b
Max(a, b) == IF a >= b THEN a ELSE b
Abs(a) == IF a < 0 THEN 0 - a ELSE a

RECURSIVE Gcd(_, _)
Gcd(a, b) == IF b = 0 THEN a ELSE Gcd(b, a % b)

\* A rational in lowest terms with a positive denominator.
Rat(n, d) ==
    LET g == Gcd(Abs(n), Abs(d))
        s == IF d < 0 THEN 0 - 1 ELSE 1
    IN IF n = 0 THEN <<0, 1>> ELSE <<s * (n \div g), s * (d \div g)>>
RatInt(n) == <<n, 1>>
RatAdd(x, y) == Rat(x[1] * y[2] + y[1] * x[2], x[2] * y[2])
RatSub(x, y) == Rat(x[1] * y[2] - y[1] * x[2], x[2] * y[2])
RatMul(x, y) == Rat(x[1] * y[1], x[2] * y[2])
RatDiv(x, y) == Rat(x[1] * y[2], x[2] * y[1])
RatLt(x, y) == x[1] * y[2] < y[1] * x[2]
RatLe(x, y) == x[1] * y[2] <= y[1] * x[2]

\* Python's round(): to the nearest integer, halves to the even neighbour.
RoundHalfEven(n, d) ==
    LET q == n \div d
        r == n % d
    IN IF 2 * r < d THEN q
       ELSE IF 2 * r > d THEN q + 1
       ELSE IF q % 2 = 0 THEN q ELSE q + 1

---------------------------------------------------------------------------
\* bot/risk.py

round_to_tick(x, tk) ==
    IF tk <= 0 THEN x
    ELSE LET v == RoundHalfEven(x[1], x[2] * tk) * tk
         IN RatInt(Max(tk, Min(One - tk, v)))

bracket_prices(fill_price, rk) ==
    LET tp == Rat(fill_price * (100 + rk.tp_pct), 100)
        sl == Rat(fill_price * (100 - rk.sl_pct), 100)
    IN <<round_to_tick(tp, rk.tick)[1], round_to_tick(sl, rk.tick)[1]>>

\* DynamicSizer.stake_usd, in money units; the balance is a rational.
stake_usd(balance, bf, rk) ==
    LET stake == RatMul(balance, Rat(bf, 100))
    IN IF stake[1] \div (stake[2] * MoneyPerUsd) >= rk.stake_cap_usd
       THEN RatMul(RatInt(rk.stake_cap_usd), RatInt(MoneyPerUsd))
       ELSE stake

\* on_trade_closed without the clamps
on_trade_closed_unclamped(bf, won, rk) ==
    IF won THEN bf - rk.bet_frac_step ELSE bf + rk.bet_frac_step

\* on_trade_closed stepping the wrong way
on_trade_closed_swapped(bf, won, rk) ==
    IF won THEN Min(rk.bet_frac_max, bf + rk.bet_frac_step)
    ELSE Max(rk.bet_frac_min, bf - rk.bet_frac_step)

on_trade_closed(bf, won, rk) ==
    IF won THEN Max(rk.bet_frac_min, bf - rk.bet_frac_step)
    ELSE Min(rk.bet_frac_max, bf + rk.bet_frac_step)

---------------------------------------------------------------------------
\* bot/strategy.py

in_band(x, lo, hi) == lo <= x /\ x <= hi

\* The prices are Python floats.  A subtraction of two prices of the cent
\* grid that lie one cent apart is inexact: float((c+1)/100) - float(c/100)
\* is 0.009999999999999898 or lower for the bids c (in cents) listed here and
\* 0.010000000000000009 for every other c in 1..98, while 0.01 itself is
\* 0.01000000000000000021.  Every other difference on the grid is a whole
\* number of cents away from 0.01, where the rounding does not matter.
OneCentBelow == {1, 2, 5, 7, 8, 10, 11, 14, 17, 20, 23, 28, 34, 40, 46, 56,
                 68, 81, 93}

\* ask - bid <= mx as the floats evaluate it (bid, ask on the cent grid).
float_sub_le(ask, bid, mx) ==
    IF ask - bid = mx /\ mx = 10 /\ bid % 10 = 0
    THEN (bid \div 10) \in OneCentBelow
    ELSE (ask - bid) <= mx

spread_ok(bid, ask, mx) ==
    IF bid = None \/ ask = None THEN FALSE
    ELSE IF ask < bid THEN FALSE
    ELSE float_sub_le(ask, bid, mx)

\* <<>> for no entry, else <<side, limit price>>.
pick_entry_side_price_only(tte_seconds, yes_bid, yes_ask, no_bid, no_ask) ==
    LET yes_ok == spread_ok(yes_bid, yes_ask, max_spread)
                  /\ in_band(yes_bid, price_min, price_max)
        no_ok == spread_ok(no_bid, no_ask, max_spread)
                 /\ in_band(no_bid, price_min, price_max)
        \* (price_min + price_max) / 2 is the float 0.8300000000000001,
        \* just above the exact midpoint; the model keeps four times the
        \* midpoint and puts it a quarter of a mil above, which orders the
        \* distances of grid prices as the floats do.
        mid4 == 2 * (price_min + price_max) + 1
    IN IF tte_seconds > tte_max_seconds THEN <<>>
       ELSE IF yes_ok /\ no_ok
            THEN IF Abs(4 * yes_bid - mid4) <= Abs(4 * no_bid - mid4)
                 THEN <<"YES", yes_bid>> ELSE <<"NO", no_bid>>
       ELSE IF yes_ok THEN <<"YES", yes_bid>>
       ELSE IF no_ok THEN <<"NO", no_bid>>
       ELSE <<>>

---------------------------------------------------------------------------
\* bot/execution.py: PaperExecution.  The operations are functions of the
\* ledger record L; an order's id is its position in L.orders (the dict
\* keeps insertion order, which is the order the sweep visits).

Assets == 1 .. 2 * MaxMarkets
yes_asset(m) == 2 * m - 1
no_asset(m) == 2 * m

NoTop == <<None, None>>

Ledger == [cash |-> cash, inv |-> inv, avg_cost |-> avg_cost,
           realized_pnl |-> realized_pnl, wins |-> wins, losses |-> losses,
           orders |-> orders]

Order(asset_id, side, price, size, post_only) ==
    [asset_id |-> asset_id, side |-> side, price |-> price, size |-> size,
     post_only |-> post_only, status |-> "open", age |-> 0,
     filled_ts |-> None, avg_fill_price |-> None]

_place(L, asset_id, side, price, size, post_only) ==
    [L EXCEPT !.orders = Append(@, Order(asset_id, side, price, size, post_only))]

place_post_only_limit_buy(L, asset_id, price, size) ==
    _place(L, asset_id, "buy", price, size, TRUE)
place_post_only_limit_sell(L, asset_id, price, size) ==
    _place(L, asset_id, "sell", price, size, TRUE)
place_limit_sell(L, asset_id, price, size) ==
    _place(L, asset_id, "sell", price, size, FALSE)

\* cancel_order without the test of the status
cancel_order_any_status(L, oid) ==
    IF oid \notin DOMAIN L.orders THEN L
    ELSE [L EXCEPT !.orders[oid].status = "canceled"]

cancel_order(L, oid) ==
    IF oid \notin DOMAIN L.orders THEN L
    ELSE IF L.orders[oid].status = "open"
         THEN [L EXCEPT !.orders[oid].status = "canceled"]
         ELSE L

_mark_filled(o, fill_price) ==
    [o EXCEPT !.status = "filled", !.filled_ts = o.age, !.avg_fill_price = fill_price]

\* FillBuy without the test of the cash
\* FillBuy taking the order's price for the cost of the whole holding
FillBuyPlainAvg(L, i, bid) ==
    LET o == L.orders[i]
        cost == o.price * o.size
        new_qty == L.inv[o.asset_id] + o.size
    IN IF Abs(o.price - bid) * 2 <= tick /\ cost <= L.cash
       THEN [L EXCEPT !.cash = @ - cost,
                      !.inv[o.asset_id] = new_qty,
                      !.avg_cost[o.asset_id] = RatInt(o.price),
                      !.orders[i] = _mark_filled(o, o.price)]
       ELSE L

FillBuyAnyCash(L, i, bid) ==
    LET o == L.orders[i]
        cost == o.price * o.size
        prev_qty == L.inv[o.asset_id]
        prev_cost == L.avg_cost[o.asset_id]
        new_qty == prev_qty + o.size
        new_avg == RatDiv(RatAdd(RatMul(RatInt(prev_qty), prev_cost),
                                 RatInt(o.size * o.price)),
                          RatInt(new_qty))
    IN IF Abs(o.price - bid) * 2 <= tick
       THEN [L EXCEPT !.cash = @ - cost,
                      !.inv[o.asset_id] = new_qty,
                      !.avg_cost[o.asset_id] = new_avg,
                      !.orders[i] = _mark_filled(o, o.price)]
       ELSE L

\* One buy order against the bid (execution.py 187-199).  Cash and cost are
\* whole numbers of money units, so the 1e-9 USD (1/100 unit) the code adds
\* to the cash in the test never decides it.
FillBuy(L, i, bid) ==
    LET o == L.orders[i]
        cost == o.price * o.size
        prev_qty == L.inv[o.asset_id]
        prev_cost == L.avg_cost[o.asset_id]
        new_qty == prev_qty + o.size
        new_avg == RatDiv(RatAdd(RatMul(RatInt(prev_qty), prev_cost),
                                 RatInt(o.size * o.price)),
                          RatInt(new_qty))
    IN IF Abs(o.price - bid) * 2 <= tick /\ cost <= L.cash
       THEN [L EXCEPT !.cash = @ - cost,
                      !.inv[o.asset_id] = new_qty,
                      !.avg_cost[o.asset_id] = new_avg,
                      !.orders[i] = _mark_filled(o, o.price)]
       ELSE L

\* the sell size without the cap at the inventory held
SellSizeUncapped(have, size) == size

\* sell_sz = min(have, o.size): execution.py 204
SellSize(have, size) == Min(have, size)

\* FillSell counting every gain and every loss, however small
FillSellAnySign(L, i, bid) ==
    LET o == L.orders[i]
        have == L.inv[o.asset_id]
        sell_sz == SellSize(have, o.size)
        c == L.avg_cost[o.asset_id]
        rpnl == RatMul(RatInt(sell_sz), RatSub(RatInt(o.price), c))
        left == have - sell_sz
    IN IF bid >= o.price /\ sell_sz > 0
       THEN [L EXCEPT !.realized_pnl = RatAdd(@, rpnl),
                      !.wins = IF RatLt(RatInt(0), rpnl) THEN @ + 1 ELSE @,
                      !.losses = IF RatLt(rpnl, RatInt(0)) THEN @ + 1 ELSE @,
                      !.inv[o.asset_id] = left,
                      !.cash = @ + o.price * sell_sz,
                      !.avg_cost[o.asset_id] = IF left <= 0 THEN RatInt(0) ELSE @,
                      !.orders[i] = _mark_filled(o, o.price)]
       ELSE L

\* FillSell keeping the average cost when the inventory is sold out
FillSellKeepCost(L, i, bid) ==
    LET o == L.orders[i]
        have == L.inv[o.asset_id]
        sell_sz == SellSize(have, o.size)
        c == L.avg_cost[o.asset_id]
        rpnl == RatMul(RatInt(sell_sz), RatSub(RatInt(o.price), c))
        left == have - sell_sz
    IN IF bid >= o.price /\ sell_sz > 0
       THEN [L EXCEPT !.realized_pnl = RatAdd(@, rpnl),
                      !.wins = IF RatLt(<<1, 100>>, rpnl) THEN @ + 1 ELSE @,
                      !.losses = IF RatLt(rpnl, <<0 - 1, 100>>) THEN @ + 1 ELSE @,
                      !.inv[o.asset_id] = left,
                      !.cash = @ + o.price * sell_sz,
                      !.orders[i] = _mark_filled(o, o.price)]
       ELSE L

\* One sell order against the bid (execution.py 201-222).
FillSell(L, i, bid) ==
    LET o == L.orders[i]
        have == L.inv[o.asset_id]
        sell_sz == SellSize(have, o.size)
        c == L.avg_cost[o.asset_id]
        rpnl == RatMul(RatInt(sell_sz), RatSub(RatInt(o.price), c))
        left == have - sell_sz
    IN IF bid >= o.price /\ sell_sz > 0
       THEN [L EXCEPT !.realized_pnl = RatAdd(@, rpnl),
                      !.wins = IF RatLt(<<1, 100>>, rpnl) THEN @ + 1 ELSE @,
                      !.losses = IF RatLt(rpnl, <<0 - 1, 100>>) THEN @ + 1 ELSE @,
                      !.inv[o.asset_id] = left,
                      !.cash = @ + o.price * sell_sz,
                      !.avg_cost[o.asset_id] = IF left <= 0 THEN RatInt(0) ELSE @,
                      !.orders[i] = _mark_filled(o, o.price)]
       ELSE L

\* FillOne without the test of the order's age
FillOneAnyAge(L, i, cache) ==
    LET o == L.orders[i]
        bid == cache[o.asset_id][1]
        ask == cache[o.asset_id][2]
    IN IF o.status # "open" THEN L
       ELSE IF bid = None \/ ask = None THEN L
       ELSE IF o.side = "buy" THEN FillBuy(L, i, bid)
       ELSE IF o.side = "sell" THEN FillSell(L, i, bid)
       ELSE L

\* One order of the sweep (execution.py 174-222).
FillOne(L, i, cache) ==
    LET o == L.orders[i]
        bid == cache[o.asset_id][1]
        ask == cache[o.asset_id][2]
    IN IF o.status # "open" THEN L
       ELSE IF o.age < fill_delay_sec THEN L
       ELSE IF bid = None \/ ask = None THEN L
       ELSE IF o.side = "buy" THEN FillBuy(L, i, bid)
       ELSE IF o.side = "sell" THEN FillSell(L, i, bid)
       ELSE L

RECURSIVE FillFrom(_, _, _)
FillFrom(L, i, cache) ==
    IF i > Len(L.orders) THEN L ELSE FillFrom(FillOne(L, i, cache), i + 1, cache)

_maybe_fill_all(L, cache) == FillFrom(L, 1, cache)

RECURSIVE SumEquity2(_, _, _)
SumEquity2(L, cache, as) ==
    IF as = {} THEN 0
    ELSE LET a == CHOOSE x \in as : TRUE
             t == cache[a]
         IN (IF t[1] = None \/ t[2] = None THEN 0 ELSE L.inv[a] * (t[1] + t[2]))
            + SumEquity2(L, cache, as \ {a})

\* cash plus inventory marked at mid, as a rational in money units
_equity_usd(L, cache) == Rat(2 * L.cash + SumEquity2(L, cache, Assets), 2)

\* <<ledger after the sweep, returned value>>
get_balance_usd(L, cache) ==
    LET L1 == _maybe_fill_all(L, cache) IN <<L1, _equity_usd(L1, cache)>>

\* get_order answering for an id it does not know as for a filled order
get_order_unknown_as_filled(L, cache, oid) ==
    LET L1 == _maybe_fill_all(L, cache)
    IN <<L1, IF oid \notin DOMAIN L1.orders
             THEN [Order(1, "buy", 0, 0, FALSE) EXCEPT !.status = "filled"]
             ELSE L1.orders[oid]>>

get_order(L, cache, oid) ==
    LET L1 == _maybe_fill_all(L, cache)
    IN <<L1, IF oid \notin DOMAIN L1.orders THEN [status |-> "unknown"]
             ELSE L1.orders[oid]>>

\* the snapshot's content is not kept; its effect on the ledger is the sweep
snapshot(L, cache) == _maybe_fill_all(L, cache)

---------------------------------------------------------------------------
\* bot/scanner.py.  A candidate is what gamma.event_by_slug and
\* _extract_tokens_and_end give for one slug: ok = FALSE when either raises,
\* else the time to expiry end_ts - now.  The probe answers are listed in
\* the order of the lookahead, the search answers in the order of the events.

\* A candidate is what Gamma holds for one slug: whether event_by_slug
\* answers, how many markets the event has, how many token ids its first
\* market lists, whether an end date is there, and end_ts - now.  In a
\* search answer slug says whether the entry names a slug at all.
Cand(t) == [fetch |-> TRUE, markets |-> 1, tokens |-> 2, end |-> TRUE,
            slug |-> TRUE, tte |-> t]
BadCand == [Cand(0) EXCEPT !.fetch = FALSE]

\* _extract_tokens_and_end with one token id taken for enough
_extract_one_token(c) ==
    IF c.markets = 0 THEN <<>>
    ELSE IF c.tokens < 1 THEN <<>>
    ELSE IF ~c.end THEN <<>>
    ELSE <<c.tte>>

\* _extract_tokens_and_end: <<>> when it raises, else <<end_ts - now>>
_extract_tokens_and_end(c) ==
    IF c.markets = 0 THEN <<>>
    ELSE IF c.tokens < 2 THEN <<>>
    ELSE IF ~c.end THEN <<>>
    ELSE <<c.tte>>

\* the window test with tte = min_tte let through
AcceptedFromMin(c, lo, hi) ==
    /\ c.fetch
    /\ LET e == _extract_tokens_and_end(c)
       IN e # <<>> /\ ~(e[1] < lo) /\ ~(e[1] > hi)

\* the body of the try block of either pass: fetch, extract, window test
Accepted(c, lo, hi) ==
    /\ c.fetch
    /\ LET e == _extract_tokens_and_end(c)
       IN e # <<>> /\ ~(e[1] <= lo) /\ ~(e[1] > hi)

\* _pick_best: the stable sort by tte puts the first of the smallest first
_pick_best(cands, idx) ==
    IF idx = {} THEN <<>>
    ELSE LET best == CHOOSE i \in idx :
                        \A j \in idx : cands[i].tte < cands[j].tte
                                       \/ (cands[i].tte = cands[j].tte /\ i <= j)
         IN <<[slug |-> best, tte |-> cands[best].tte]>>

\* The scan: searched says whether gamma.search was called, out is <<>>
\* when the scan raises, else <<[pass, slug, tte]>>.
scan_run(probe, search, lo, hi) ==
    LET ok == {i \in DOMAIN probe : Accepted(probe[i], lo, hi)}
        best == _pick_best(probe, ok)
        ok2 == {i \in DOMAIN search.events :
                   search.events[i].slug /\ Accepted(search.events[i], lo, hi)}
        best2 == _pick_best(search.events, ok2)
    IN IF best # <<>>
       THEN [searched |-> FALSE,
             out |-> <<[pass |-> "slug", slug |-> best[1].slug, tte |-> best[1].tte]>>]
       ELSE IF search.raises THEN [searched |-> TRUE, out |-> <<>>]
       ELSE IF best2 # <<>>
            THEN [searched |-> TRUE,
                  out |-> <<[pass |-> "search", slug |-> best2[1].slug,
                             tte |-> best2[1].tte]>>]
       ELSE [searched |-> TRUE, out |-> <<>>]

scan_btc_15m_by_slug(probe, search, lo, hi) == scan_run(probe, search, lo, hi).out

\* The answers of the metadata service the model draws a scan from.
GammaAnswers ==
    { [probe |-> <<Cand(50), Cand(700), Cand(1100)>>,
       search |-> [raises |-> FALSE, events |-> <<>>]],
      [probe |-> <<BadCand, Cand(420)>>,
       search |-> [raises |-> FALSE, events |-> <<>>]],
      [probe |-> <<Cand(120)>>,
       search |-> [raises |-> FALSE, events |-> <<Cand(1300), Cand(420)>>]],
      [probe |-> <<BadCand, Cand(1201)>>,
       search |-> [raises |-> FALSE, events |-> <<Cand(120)>>]],
      [probe |-> <<BadCand>>,
       search |-> [raises |-> TRUE, events |-> <<>>]] }

---------------------------------------------------------------------------
\* bot/scalp_mode.py: ScalpMode

OpenPosition(side, asset_id, qty, oid, px) ==
    [side |-> side, asset_id |-> asset_id, qty |-> qty, entry_order_id |-> oid,
     entry_post_price |-> px, entry_age |-> 0, fill_price |-> None,
     tp_price |-> None, sl_price |-> None, tp_order_id |-> None]

_tte_seconds == Max(0, tte)

on_book_top(bk, asset_id, bid, ask) ==
    LET b == IF bid # None THEN round_to_tick(RatInt(bid), risk.tick)[1] ELSE bid
        a == IF ask # None THEN round_to_tick(RatInt(ask), risk.tick)[1] ELSE ask
    IN [bk EXCEPT ![asset_id] = <<b, a>>]

BooksPresent(bk, m) ==
    /\ bk[yes_asset(m)][1] # None /\ bk[yes_asset(m)][2] # None
    /\ bk[no_asset(m)][1] # None /\ bk[no_asset(m)][2] # None

\* The result of one run of step() up to its return or its first sleep:
\* the ledger, the position, the sizer, the orders placed (kinds, in order),
\* the sizer calls, and where the task waits next.
StepResult(L, p, bf, kinds, won, lost, at, n, xo) ==
    [L |-> L, pos |-> p, bet_frac |-> bf, kinds |-> kinds, won |-> won,
     lost |-> lost, pc |-> at, polls |-> n, exit_oid |-> xo]

Returned(L, p, bf, kinds, won, lost) ==
    StepResult(L, p, bf, kinds, won, lost, "run", 0, 0)

\* scalp_mode.py 119-153
StepEnter(L, m) ==
    LET choice == pick_entry_side_price_only(_tte_seconds,
                      book[yes_asset(m)][1], book[yes_asset(m)][2],
                      book[no_asset(m)][1], book[no_asset(m)][2])
        side == choice[1]
        limit_px == choice[2]
        bal == get_balance_usd(L, price_cache)
        stake == stake_usd(bal[2], bet_frac, risk)
        asset_id == IF side = "YES" THEN yes_asset(m) ELSE no_asset(m)
        qty == Max(MinQty, stake[1] \div (stake[2] * limit_px))
        L2 == place_post_only_limit_buy(bal[1], asset_id, limit_px, qty)
    IN IF choice = <<>> THEN Returned(L, pos, bet_frac, <<>>, 0, 0)
       ELSE Returned(L2, <<OpenPosition(side, asset_id, qty, Len(L2.orders), limit_px)>>,
                     bet_frac, <<"entry">>, 0, 0)

\* the TTL test one slot late
EntryTtlExpiredLate(p) == p.entry_age > entry_ttl_seconds + 1

\* Whether the TTL branch cancels: scalp_mode.py 160
EntryTtlExpired(p) == p.entry_age > entry_ttl_seconds

\* StepEntryPending taking every entry order that is not canceled as filled
StepEntryPendingEager(L, p) ==
    LET st == get_order(L, price_cache, p.entry_order_id)
        o == st[2]
        fill_px == IF o.avg_fill_price # None /\ o.avg_fill_price # 0 THEN o.avg_fill_price
                   ELSE IF o.price # 0 THEN o.price ELSE p.entry_post_price
        br == bracket_prices(fill_px, risk)
        L2 == place_post_only_limit_sell(st[1], p.asset_id, br[1], p.qty)
        p2 == [p EXCEPT !.fill_price = fill_px, !.tp_price = br[1],
                        !.sl_price = br[2], !.tp_order_id = Len(L2.orders)]
    IN IF EntryTtlExpired(p)
       THEN Returned(cancel_order(L, p.entry_order_id), <<>>, bet_frac, <<>>, 0, 0)
       ELSE IF o.status # "canceled"
            THEN Returned(L2, <<p2>>, bet_frac, <<"tp">>, 0, 0)
       ELSE Returned(st[1], <<p>>, bet_frac, <<>>, 0, 0)

\* scalp_mode.py 158-181
StepEntryPending(L, p) ==
    LET st == get_order(L, price_cache, p.entry_order_id)
        o == st[2]
        fill_px == IF o.avg_fill_price # None /\ o.avg_fill_price # 0 THEN o.avg_fill_price
                   ELSE IF o.price # 0 THEN o.price ELSE p.entry_post_price
        br == bracket_prices(fill_px, risk)
        L2 == place_post_only_limit_sell(st[1], p.asset_id, br[1], p.qty)
        p2 == [p EXCEPT !.fill_price = fill_px, !.tp_price = br[1],
                        !.sl_price = br[2], !.tp_order_id = Len(L2.orders)]
    IN IF EntryTtlExpired(p)
       THEN Returned(cancel_order(L, p.entry_order_id), <<>>, bet_frac, <<>>, 0, 0)
       ELSE IF o.status = "filled"
            THEN Returned(L2, <<p2>>, bet_frac, <<"tp">>, 0, 0)
       ELSE Returned(st[1], <<p>>, bet_frac, <<>>, 0, 0)

\* on_trade_closed(won=False), pos = None, return: scalp_mode.py 225-229
CloseLost(L, kinds) ==
    Returned(L, <<>>, on_trade_closed(bet_frac, FALSE, risk), kinds, 0, 1)

\* the stop-loss exit that leaves the take-profit order in the book
StepStopLossKeepTp(L, p, bid) ==
    LET L2 == place_limit_sell(L, p.asset_id, bid, p.qty)
        xo == Len(L2.orders)
        st == get_order(L2, price_cache, xo)
    IN IF st[2].status = "filled" THEN CloseLost(st[1], <<"exit">>)
       ELSE StepResult(st[1], <<p>>, bet_frac, <<"exit">>, 0, 0, "sl1", 1, xo)

\* the stop-loss exit priced at sl_price instead of the bid
StepStopLossAtSl(L, p, bid) ==
    LET L1 == IF p.tp_order_id # None THEN cancel_order(L, p.tp_order_id) ELSE L
        L2 == place_limit_sell(L1, p.asset_id, p.sl_price, p.qty)
        xo == Len(L2.orders)
        st == get_order(L2, price_cache, xo)
    IN IF st[2].status = "filled" THEN CloseLost(st[1], <<"exit">>)
       ELSE StepResult(st[1], <<p>>, bet_frac, <<"exit">>, 0, 0, "sl1", 1, xo)

\* The stop-loss exit once the bid is at or under sl_price, up to the first
\* poll of the exit order: scalp_mode.py 198-212
StepStopLoss(L, p, bid) ==
    LET L1 == IF p.tp_order_id # None THEN cancel_order(L, p.tp_order_id) ELSE L
        L2 == place_limit_sell(L1, p.asset_id, bid, p.qty)
        xo == Len(L2.orders)
        st == get_order(L2, price_cache, xo)
    IN IF st[2].status = "filled" THEN CloseLost(st[1], <<"exit">>)
       ELSE StepResult(st[1], <<p>>, bet_frac, <<"exit">>, 0, 0, "sl1", 1, xo)

\* StepFilled with the stop-loss test ahead of the take-profit test
StepFilledSlFirst(L, p) ==
    LET tp_st == get_order(L, price_cache, p.tp_order_id)
        has_tp == p.tp_order_id # None
        L1 == IF has_tp THEN tp_st[1] ELSE L
        bid == book[p.asset_id][1]
    IN IF bid # None /\ bid <= p.sl_price THEN StepStopLoss(L, p, bid)
       ELSE IF has_tp /\ tp_st[2].status = "filled"
       THEN Returned(L1, <<>>, on_trade_closed(bet_frac, TRUE, risk), <<>>, 1, 0)
       ELSE Returned(L1, <<p>>, bet_frac, <<>>, 0, 0)

\* scalp_mode.py 183-229
StepFilled(L, p) ==
    LET tp_st == get_order(L, price_cache, p.tp_order_id)
        has_tp == p.tp_order_id # None
        L1 == IF has_tp THEN tp_st[1] ELSE L
        bid == book[p.asset_id][1]
    IN IF has_tp /\ tp_st[2].status = "filled"
       THEN Returned(L1, <<>>, on_trade_closed(bet_frac, TRUE, risk), <<>>, 1, 0)
       ELSE IF bid = None THEN Returned(L1, <<p>>, bet_frac, <<>>, 0, 0)
       ELSE IF bid <= p.sl_price THEN StepStopLoss(L1, p, bid)
       ELSE Returned(L1, <<p>>, bet_frac, <<>>, 0, 0)

\* step() that looks for an entry while an entry is still pending
step_without_pending_check(L, m) ==
    IF ~BooksPresent(book, m) THEN Returned(L, pos, bet_frac, <<>>, 0, 0)
    ELSE IF pos = <<>> \/ pos[1].fill_price = None THEN StepEnter(L, m)
    ELSE StepFilled(L, pos[1])

\* step() without the test that the four book values are present
step_without_book_check(L, m) ==
    IF pos = <<>> THEN StepEnter(L, m)
    ELSE IF pos[1].fill_price = None THEN StepEntryPending(L, pos[1])
    ELSE StepFilled(L, pos[1])

\* step(), from its start to its return or first sleep: scalp_mode.py 101-229
step(L, m) ==
    IF ~BooksPresent(book, m) THEN Returned(L, pos, bet_frac, <<>>, 0, 0)
    ELSE IF pos = <<>> THEN StepEnter(L, m)
    ELSE IF pos[1].fill_price = None THEN StepEntryPending(L, pos[1])
    ELSE StepFilled(L, pos[1])

\* step() resumed after the sleep that follows an unfilled poll of the first
\* exit order: scalp_mode.py 207-225
ResumePoll1(L, p) ==
    LET st == get_order(L, price_cache, exit_oid)
        bid2 == book[p.asset_id][1]
        L2 == place_limit_sell(L, p.asset_id, bid2, p.qty)
        xo2 == Len(L2.orders)
        st2 == get_order(L2, price_cache, xo2)
    IN IF polls < PollCount
       THEN IF st[2].status = "filled" THEN CloseLost(st[1], <<>>)
            ELSE StepResult(st[1], <<p>>, bet_frac, <<>>, 0, 0, "sl1", polls + 1, exit_oid)
       ELSE IF bid2 = None THEN CloseLost(L, <<>>)
       ELSE IF st2[2].status = "filled" THEN CloseLost(st2[1], <<"exit">>)
       ELSE StepResult(st2[1], <<p>>, bet_frac, <<"exit">>, 0, 0, "sl2", 1, xo2)

\* ResumePoll2 polling until the re-priced exit order fills
ResumePoll2Forever(L, p) ==
    LET st2 == get_order(L, price_cache, exit_oid)
    IN IF st2[2].status = "filled" THEN CloseLost(st2[1], <<>>)
       ELSE StepResult(st2[1], <<p>>, bet_frac, <<>>, 0, 0, "sl2", polls + 1, exit_oid)

\* ... and after the sleep that follows an unfilled poll of the re-priced
\* exit order: scalp_mode.py 219-229
ResumePoll2(L, p) ==
    LET st2 == get_order(L, price_cache, exit_oid)
    IN IF polls < PollCount
       THEN IF st2[2].status = "filled" THEN CloseLost(st2[1], <<>>)
            ELSE StepResult(st2[1], <<p>>, bet_frac, <<>>, 0, 0, "sl2", polls + 1, exit_oid)
       ELSE CloseLost(L, <<>>)

---------------------------------------------------------------------------
\* The feed: the raw tops of book the model lets the feed deliver.  726 is
\* stored by the engine as 730; the ledger's price_cache keeps it as 726.
\* A book with bids and no asks gives a bid and None (datafeed.py 128-134).

YesTops == {NoTop, <<810, 820>>, <<890, 900>>, <<726, 740>>, <<690, 700>>,
            <<690, None>>}
NoTops == {<<170, 180>>}

\* no answer drawn yet; no state file; _last_save_ts = 0.0 lies further back
\* than the 0.5 s debounce of _maybe_save (execution.py 64, 284), 3 slots
NoAnswer == [probe |-> <<>>, search |-> [raises |-> FALSE, events |-> <<>>]]
NoFile == [kind |-> "missing"]

\* the ledger __init__ builds before it loads (execution.py 54-64)
FreshLedger ==
    [cash |-> StartCash, inv |-> [a \in Assets |-> 0],
     avg_cost |-> [a \in Assets |-> RatInt(0)], realized_pnl |-> RatInt(0),
     wins |-> 0, losses |-> 0, orders |-> <<>>]

\* the ledger after a round trip of sz lots bought at 820 and sold at
\* 820 + gain (none when gain = 0), then holding sz lots bought at 820 or not
LedgerAfter(sz, gain, holding) ==
    [FreshLedger EXCEPT
        !.cash = @ + gain * sz - (IF holding THEN 820 * sz ELSE 0),
        !.inv[1] = IF holding THEN sz ELSE 0,
        !.avg_cost[1] = IF holding THEN RatInt(820) ELSE RatInt(0),
        !.realized_pnl = RatInt(gain * sz),
        !.wins = IF gain > 0 THEN 1 ELSE 0,
        !.losses = IF gain < 0 THEN 1 ELSE 0]

\* ledgers an earlier process may have saved
SavedLedgers ==
    {LedgerAfter(sz, gain, holding) :
        sz \in {30, 60}, gain \in {0 - 80, 0, 80}, holding \in BOOLEAN}

\* the state after construction: the sizer's configuration, Gamma's
\* answer to come, the state file found and the ledger loaded from it
\* no call of pick_entry_side_price_only yet
NoArgs == [tte_seconds |-> 0, yes_bid |-> None, yes_ask |-> None,
           no_bid |-> None, no_ask |-> None]
NotPicked == <<"none">>
\* a snapshot dict by its status: runtime.py 41, 56, 194, 217-235, 254-263
Snap(st) == [running |-> st \in {"starting", "running"}, status |-> st,
             error |-> st = "error"]
\* the status consumer has called wait_for_update with the _seq of the
\* construction and got nothing yet
NotSeen == [running |-> FALSE, status |-> "none", error |-> FALSE]
\* no call of round_to_tick yet
NoTickArgs == [x |-> <<0, 1>>, tick |-> 0]
NotTicked == <<>>

InitCalls(rk, g, f, L0, args) ==
    /\ cash = L0.cash
    /\ inv = L0.inv
    /\ avg_cost = L0.avg_cost
    /\ realized_pnl = L0.realized_pnl
    /\ wins = L0.wins
    /\ losses = L0.losses
    /\ orders = L0.orders
    /\ price_cache = [a \in Assets |-> NoTop]
    /\ book = [a \in Assets |-> NoTop]
    /\ pos = <<>>
    /\ risk = rk
    /\ bet_frac = risk.bet_frac_start
    /\ market = 0
    /\ tte = 0
    /\ pc = "init"
    /\ sleep_left = 0
    /\ polls = 0
    /\ exit_oid = 0
    /\ placed_by = <<>>
    /\ closed_won = 0
    /\ closed_lost = 0
    /\ last_scan = "none"
    /\ gamma = g
    /\ searched = FALSE
    /\ scanned = <<>>
    /\ rt_task = 0
    /\ tasks = <<>>
    /\ stop_evt = FALSE
    /\ stoppers = <<>>
    /\ feeds = {}
    /\ stops_completed = 0
    /\ file = f
    /\ last_save_age = save_debounce
    /\ save_result = "none"
    /\ save_raised = FALSE
    /\ save_failed = FALSE
    /\ loads = 0
    /\ pick_args = args
    /\ picked = NotPicked
    /\ rt_snapshot = Snap("stopped")
    /\ rt_pubs = <<>>
    /\ seq_moved = FALSE
    /\ seen = NotSeen

\* ... and no call of round_to_tick on its own
InitAll(rk, g, f, L0, args) ==
    /\ InitCalls(rk, g, f, L0, args)
    /\ tick_args = NoTickArgs
    /\ ticked = NotTicked

InitFrom(rk, g, f, L0) == InitAll(rk, g, f, L0, NoArgs)

\* no scan and no state file yet
InitWith(rk) == InitFrom(rk, NoAnswer, NoFile, FreshLedger)

Init == InitWith(ScalpRisk)

SetLedger(L) ==
    /\ cash' = L.cash
    /\ inv' = L.inv
    /\ avg_cost' = L.avg_cost
    /\ realized_pnl' = L.realized_pnl
    /\ wins' = L.wins
    /\ losses' = L.losses
    /\ orders' = L.orders

\* start_new_market (runtime.py 155-192, main.py 108-146) with the scan's
\* answer: a fresh MarketSpec and ScalpMode, the price cache cleared.  When
\* the scan raises, the exception leaves the loop: runtime.py 251-263 ends
\* the task, main.py 184-190 ends main().
\* start_new_market that leaves the price cache as it is
start_new_market_keep_cache(found) ==
    IF found = <<>>
    THEN /\ pc' = "done"
         /\ last_scan' = "raised"
         /\ UNCHANGED <<market, tte, price_cache, engineVars>>
    ELSE /\ market' = market + 1
         /\ tte' = found[1].tte
         /\ price_cache' = price_cache
         /\ book' = [a \in Assets |-> NoTop]
         /\ pos' = <<>>
         /\ bet_frac' = risk.bet_frac_start
         /\ risk' = risk
         /\ pc' = "run"
         /\ last_scan' = "found"

start_new_market(found) ==
    IF found = <<>>
    THEN /\ pc' = "done"
         /\ last_scan' = "raised"
         /\ UNCHANGED <<market, tte, price_cache, engineVars>>
    ELSE /\ market' = market + 1
         /\ tte' = found[1].tte
         /\ price_cache' = [a \in Assets |-> NoTop]
         /\ book' = [a \in Assets |-> NoTop]
         /\ pos' = <<>>
         /\ bet_frac' = risk.bet_frac_start
         /\ risk' = risk
         /\ pc' = "run"
         /\ last_scan' = "found"

\* _run up to the loop: runtime.py 194-195 (main.py 149)
RunStart ==
    /\ pc = "init"
    /\ \E g \in GammaAnswers :
          start_new_market(scan_btc_15m_by_slug(g.probe, g.search, min_tte, max_tte))
    /\ sleep_left' = 0
    /\ UNCHANGED <<ledgerVars, polls, exit_oid, placed_by, closed_won, closed_lost,
                   extVars>>

Kinds(ks) == [i \in DOMAIN ks |-> [eng |-> market, kind |-> ks[i]]]

Apply(r, cap) ==
    /\ Len(r.L.orders) <= cap
    /\ SetLedger(r.L)
    /\ pos' = r.pos
    /\ bet_frac' = r.bet_frac
    /\ placed_by' = placed_by \o Kinds(r.kinds)
    /\ closed_won' = closed_won + r.won
    /\ closed_lost' = closed_lost + r.lost
    /\ pc' = r.pc
    /\ polls' = r.polls
    /\ exit_oid' = r.exit_oid
    /\ sleep_left' = SleepStep
    /\ UNCHANGED <<risk, last_scan, extVars>>

LoopAwake == pc = "run" /\ sleep_left = 0
RolloverDue == tte <= 0 - rollover_grace_sec

\* LoopRollover cancelling the open orders of the old window first
LoopRolloverUnwind ==
    /\ LoopAwake
    /\ RolloverDue
    /\ market < MaxMarkets
    /\ LET L == snapshot(Ledger, price_cache)
       IN SetLedger([L EXCEPT !.orders =
                        [i \in DOMAIN L.orders |->
                            IF L.orders[i].status = "open"
                            THEN [L.orders[i] EXCEPT !.status = "canceled"]
                            ELSE L.orders[i]]])
    /\ \E g \in GammaAnswers :
          start_new_market(scan_btc_15m_by_slug(g.probe, g.search, min_tte, max_tte))
    /\ sleep_left' = IF pc' = "done" THEN 0 ELSE SleepRollover
    /\ UNCHANGED <<polls, exit_oid, placed_by, closed_won, closed_lost, extVars>>

\* One iteration of the loop that rotates: runtime.py 215-244 (main.py 171-179)
LoopRollover ==
    /\ LoopAwake
    /\ RolloverDue
    /\ market < MaxMarkets
    /\ SetLedger(snapshot(Ledger, price_cache))
    /\ \E g \in GammaAnswers :
          start_new_market(scan_btc_15m_by_slug(g.probe, g.search, min_tte, max_tte))
    /\ sleep_left' = IF pc' = "done" THEN 0 ELSE SleepRollover
    /\ UNCHANGED <<polls, exit_oid, placed_by, closed_won, closed_lost, extVars>>

\* One iteration of the loop that steps the engine: runtime.py 215-247
\* (main.py 181-182), up to the next sleep
LoopStepCap(cap) ==
    /\ LoopAwake
    /\ ~RolloverDue
    /\ Apply(step(snapshot(Ledger, price_cache), market), cap)
    /\ UNCHANGED <<price_cache, book, market, tte>>

LoopStep == LoopStepCap(MaxOrders)

\* step() resumed in the first poll loop of the stop-loss exit
Poll1 ==
    /\ pc = "sl1"
    /\ sleep_left = 0
    /\ Apply(ResumePoll1(Ledger, pos[1]), MaxOrders)
    /\ UNCHANGED <<price_cache, book, market, tte>>

\* step() resumed in the second poll loop of the stop-loss exit
Poll2 ==
    /\ pc = "sl2"
    /\ sleep_left = 0
    /\ Apply(ResumePoll2(Ledger, pos[1]), MaxOrders)
    /\ UNCHANGED <<price_cache, book, market, tte>>

\* on_book (runtime.py 150-153, main.py 103-106), called by the feed task
\* while the loop task sleeps
OnBookFrom(yes_tops, no_tops) ==
    /\ pc \in {"run", "sl1", "sl2"}
    /\ \E side \in {"YES", "NO"} :
          \E top \in (IF side = "YES" THEN yes_tops ELSE no_tops) :
             LET a == IF side = "YES" THEN yes_asset(market) ELSE no_asset(market)
             IN /\ price_cache' = [price_cache EXCEPT ![a] = top]
                /\ book' = on_book_top(book, a, top[1], top[2])
    /\ UNCHANGED <<ledgerVars, risk, pos, bet_frac, loopVars, histVars, extVars>>

OnBook == OnBookFrom(YesTops, NoTops)

AgeOrder(o) ==
    IF o.status = "open" THEN [o EXCEPT !.age = Min(fill_delay_sec, @ + 1)] ELSE o
AgePos(p) ==
    IF p.fill_price = None THEN [p EXCEPT !.entry_age = Min(entry_ttl_seconds + 1, @ + 1)]
    ELSE p

\* 0.2 s of wall-clock time pass while the loop task sleeps
Tick ==
    /\ pc \in {"run", "sl1", "sl2"}
    /\ sleep_left > 0
    /\ orders' = [i \in DOMAIN orders |-> AgeOrder(orders[i])]
    /\ pos' = [i \in DOMAIN pos |-> AgePos(pos[i])]
    /\ sleep_left' = Max(0, sleep_left - 1)
    /\ UNCHANGED <<cash, inv, avg_cost, realized_pnl, wins, losses, price_cache,
                   risk, book, bet_frac, market, tte, pc, polls, exit_oid, histVars,
                   extVars>>

\* The market's clock: the time to expiry falls to the next value at which
\* the code's comparisons change (tte_max_seconds, 0, -rollover_grace_sec).
Landmarks == {tte_max_seconds, 0, 0 - rollover_grace_sec}
MarketClock ==
    /\ pc \in {"run", "sl1", "sl2"}
    /\ \E t \in Landmarks :
          /\ t < tte
          /\ \A u \in Landmarks : u < tte => u <= t
          /\ tte' = t
    /\ UNCHANGED <<ledgerVars, price_cache, engineVars, market, pc, sleep_left,
                   polls, exit_oid, histVars, extVars>>

Next ==
    \/ RunStart
    \/ LoopStep
    \/ Poll1
    \/ Poll2
    \/ OnBook
    \/ Tick
    \/ MarketClock

Spec == Init /\ [][Next]_vars

\* pick_entry_side_price_only on its own: the arguments step() can pass it.
\* They are book values, which on_book_top keeps on the cent grid, around
\* the entry band, with asks from one tick under the bid to PickMaxSpread
\* ticks over it, and times to expiry around the entry cutoff.
PickMargin == 1
PickMaxSpread == 2

PickBids ==
    {None} \cup {b \in price_min - PickMargin * tick .. price_max + PickMargin * tick :
                    b % tick = 0}
PickAsks(bid) ==
    IF bid = None THEN {None, price_min}
    ELSE {None} \cup {bid + k * tick : k \in 0 - 1 .. PickMaxSpread}
PickTtes == {0, tte_max_seconds - 1, tte_max_seconds, tte_max_seconds + 1}

PickInit ==
    \E t \in PickTtes, yb \in PickBids, nb \in PickBids :
       \E ya \in PickAsks(yb), na \in PickAsks(nb) :
          InitAll(ScalpRisk, NoAnswer, NoFile, FreshLedger,
                  [tte_seconds |-> t, yes_bid |-> yb, yes_ask |-> ya,
                   no_bid |-> nb, no_ask |-> na])

nonPickVars == <<ledgerVars, price_cache, engineVars, loopVars, histVars, scanVars,
                 rtVars, storeVars, tickVars, statusVars>>

\* the call at scalp_mode.py 120-125
Pick ==
    /\ picked = NotPicked
    /\ picked' = pick_entry_side_price_only(pick_args.tte_seconds,
                     pick_args.yes_bid, pick_args.yes_ask,
                     pick_args.no_bid, pick_args.no_ask)
    /\ UNCHANGED <<pick_args, nonPickVars>>

NextPick == Pick

SpecPick == PickInit /\ [][NextPick]_vars

---------------------------------------------------------------------------
\* round_to_tick on its own: any price in half mils from below 0 to above 1,
\* and ticks that are negative, zero, divide 1 or do not.

RoundMargin == 20

RoundXs == {<<n, 2>> : n \in 0 - RoundMargin .. 2 * One + RoundMargin}
RoundTicks == {0 - tick, 0, 1, 3, tick, 250, 300, 400, 500}

RoundInit ==
    \E x \in RoundXs, tk \in RoundTicks :
       /\ InitCalls(ScalpRisk, NoAnswer, NoFile, FreshLedger, NoArgs)
       /\ tick_args = [x |-> x, tick |-> tk]
       /\ ticked = NotTicked

\* a call of round_to_tick (risk.py 26-34)
RoundToTick ==
    /\ ticked = NotTicked
    /\ ticked' = round_to_tick(tick_args.x, tick_args.tick)
    /\ UNCHANGED <<tick_args, ledgerVars, price_cache, engineVars, loopVars, histVars,
                   scanVars, rtVars, storeVars, pickVars, statusVars>>

NextRound == RoundToTick

SpecRound == RoundInit /\ [][NextRound]_vars

\* The same loop under a feed whose NO book can go empty as well, so that a
\* step() can find a book value absent while the ledger can fill YES orders.
FeedYesTops == {<<810, 820>>, <<890, 900>>, <<726, 740>>, <<690, 700>>}
FeedNoTops == {NoTop, <<170, 180>>}

OnBookAny == OnBookFrom(FeedYesTops, FeedNoTops)

NextFeed ==
    \/ RunStart
    \/ LoopStep
    \/ Poll1
    \/ Poll2
    \/ OnBookAny
    \/ Tick
    \/ MarketClock

SpecFeed == Init /\ [][NextFeed]_vars

\* The same loop and feed with the engine built on other risk settings: the
\* defaults, which start at bet_frac_max, and a sizer that starts one step
\* short of bet_frac_min.
EngineRisks ==
    {ScalpRisk,
     [ScalpRisk EXCEPT !.bet_frac_start = 2, !.bet_frac_step = 3]}

RiskInit == \E rk \in EngineRisks : InitWith(rk)

SpecRisk == RiskInit /\ [][NextFeed]_vars

\* The loop with rotation, on an order table capped at MaxOrdersRot
RotStep == LoopStepCap(MaxOrdersRot)

NextRot ==
    \/ RunStart
    \/ LoopRollover
    \/ RotStep
    \/ OnBook
    \/ Tick
    \/ MarketClock

SpecRot == Init /\ [][NextRot]_vars

---------------------------------------------------------------------------
\* The ledger on its own: any caller of the PaperExecution interface, with
\* the book updates and the clock.

LedgerAssets == {1}
LedgerPrices == {820, 900}
LedgerSizes == {30, 60}
LedgerTops == {NoTop, <<820, 830>>, <<900, 910>>}

nonLedgerVars == <<engineVars, loopVars, histVars, extVars>>

LPlaceBuy ==
    /\ Len(orders) < MaxLedgerOrders
    /\ \E a \in LedgerAssets, p \in LedgerPrices, sz \in LedgerSizes :
          SetLedger(place_post_only_limit_buy(Ledger, a, p, sz))
    /\ UNCHANGED <<price_cache, nonLedgerVars>>

LPlacePostOnlySell ==
    /\ Len(orders) < MaxLedgerOrders
    /\ \E a \in LedgerAssets, p \in LedgerPrices, sz \in LedgerSizes :
          SetLedger(place_post_only_limit_sell(Ledger, a, p, sz))
    /\ UNCHANGED <<price_cache, nonLedgerVars>>

LPlaceSell ==
    /\ Len(orders) < MaxLedgerOrders
    /\ \E a \in LedgerAssets, p \in LedgerPrices, sz \in LedgerSizes :
          SetLedger(place_limit_sell(Ledger, a, p, sz))
    /\ UNCHANGED <<price_cache, nonLedgerVars>>

\* cancel_order on any id, known or not
LCancel ==
    /\ \E oid \in 1 .. MaxLedgerOrders + 1 : SetLedger(cancel_order(Ledger, oid))
    /\ UNCHANGED <<price_cache, nonLedgerVars>>

LGetOrder ==
    /\ \E oid \in 1 .. MaxLedgerOrders + 1 :
          SetLedger(get_order(Ledger, price_cache, oid)[1])
    /\ UNCHANGED <<price_cache, nonLedgerVars>>

LGetBalance ==
    /\ SetLedger(get_balance_usd(Ledger, price_cache)[1])
    /\ UNCHANGED <<price_cache, nonLedgerVars>>

LSnapshot ==
    /\ SetLedger(snapshot(Ledger, price_cache))
    /\ UNCHANGED <<price_cache, nonLedgerVars>>

\* the owner of price_cache stores a top of book
LBook ==
    /\ \E a \in LedgerAssets, top \in LedgerTops :
          price_cache' = [price_cache EXCEPT ![a] = top]
    /\ UNCHANGED <<ledgerVars, nonLedgerVars>>

\* One fill delay of wall-clock time passes between two calls: the sweep
\* reads an order's age only through age >= fill_delay_sec.
LTick ==
    /\ orders' = [i \in DOMAIN orders |->
                     IF orders[i].status = "open"
                     THEN [orders[i] EXCEPT !.age = fill_delay_sec]
                     ELSE orders[i]]
    /\ UNCHANGED <<cash, inv, avg_cost, realized_pnl, wins, losses, price_cache,
                   nonLedgerVars>>

NextLedger ==
    \/ LPlaceBuy
    \/ LPlacePostOnlySell
    \/ LPlaceSell
    \/ LCancel
    \/ LGetOrder
    \/ LGetBalance
    \/ LSnapshot
    \/ LBook
    \/ LTick

SpecLedger == Init /\ [][NextLedger]_vars

\* The same ledger with small sizes and prices a tenth of a tick apart, where
\* a sale can realize less than the 1e-9 USD (1/100 money unit) that wins
\* and losses are counted from.
DustPrices == {829, 830}
DustSizes == {1, 119}
DustTops == {NoTop, <<830, 840>>}

DPlaceBuy ==
    /\ Len(orders) < MaxDustOrders
    /\ \E p \in DustPrices, sz \in DustSizes :
          SetLedger(place_post_only_limit_buy(Ledger, 1, p, sz))
    /\ UNCHANGED <<price_cache, nonLedgerVars>>

DPlaceSell ==
    /\ Len(orders) < MaxDustOrders
    /\ \E p \in DustPrices, sz \in DustSizes :
          SetLedger(place_limit_sell(Ledger, 1, p, sz))
    /\ UNCHANGED <<price_cache, nonLedgerVars>>

DBook ==
    /\ \E top \in DustTops : price_cache' = [price_cache EXCEPT ![1] = top]
    /\ UNCHANGED <<ledgerVars, nonLedgerVars>>

NextDust ==
    \/ DPlaceBuy
    \/ DPlaceSell
    \/ DBook
    \/ LTick
    \/ LSnapshot

SpecDust == Init /\ [][NextDust]_vars

\* The same ledger started on what an earlier process left: inventory held
\* at its average cost, realized P&L and counters, and no orders.
TripInit == \E L \in SavedLedgers : InitFrom(ScalpRisk, NoAnswer, NoFile, L)

SpecTrip == TripInit /\ [][NextLedger]_vars

---------------------------------------------------------------------------
\* The sizer on its own: DynamicSizer built from any ScalpRisk whose start
\* fraction lies between its bounds, then any sequence of closed trades.

RiskConfigs ==
    { [ScalpRisk EXCEPT !.bet_frac_min = lo, !.bet_frac_max = hi,
                        !.bet_frac_start = st, !.bet_frac_step = d] :
        lo \in 0 .. SizerMaxFrac, hi \in 0 .. SizerMaxFrac,
        st \in 0 .. SizerMaxFrac, d \in 1 .. SizerMaxStep }

SizerInit ==
    \E rk \in {c \in RiskConfigs : c.bet_frac_min <= c.bet_frac_start
                                   /\ c.bet_frac_start <= c.bet_frac_max} :
       InitWith(rk)

SizerClose(won) ==
    /\ closed_won + closed_lost < MaxCloses
    /\ bet_frac' = on_trade_closed(bet_frac, won, risk)
    /\ closed_won' = closed_won + (IF won THEN 1 ELSE 0)
    /\ closed_lost' = closed_lost + (IF won THEN 0 ELSE 1)
    /\ UNCHANGED <<ledgerVars, price_cache, risk, book, pos, loopVars, placed_by,
                   last_scan, extVars>>

SizerWin == SizerClose(TRUE)
SizerLoss == SizerClose(FALSE)

NextSizer ==
    \/ SizerWin
    \/ SizerLoss

SpecSizer == SizerInit /\ [][NextSizer]_vars

---------------------------------------------------------------------------
\* bot/scanner.py: one scan on an answer of Gamma drawn from bounded sets.

ProbeCands ==
    {Cand(t) : t \in {50, min_tte, 700, 1100, max_tte, max_tte + 1}}
    \cup {BadCand, [Cand(700) EXCEPT !.markets = 0],
          [Cand(700) EXCEPT !.tokens = 1], [Cand(700) EXCEPT !.end = FALSE]}

EventCands ==
    {Cand(min_tte), Cand(700), BadCand, [Cand(700) EXCEPT !.markets = 0],
     [Cand(700) EXCEPT !.tokens = 1], [Cand(700) EXCEPT !.end = FALSE],
     [Cand(700) EXCEPT !.slug = FALSE]}

SeqsUpTo(S, n) == UNION {[1 .. k -> S] : k \in 0 .. n}

\* gamma.search raises, or answers with a list of events
SearchAnswers ==
    {[raises |-> TRUE, events |-> <<>>]}
    \cup {[raises |-> FALSE, events |-> e] : e \in SeqsUpTo(EventCands, MaxEvents)}

ScanInit ==
    \E p \in SeqsUpTo(ProbeCands, MaxProbe), sr \in SearchAnswers :
       InitFrom(ScalpRisk, [probe |-> p, search |-> sr], NoFile, FreshLedger)

nonScanVars == <<ledgerVars, price_cache, engineVars, loopVars, placed_by,
                 closed_won, closed_lost, rtVars, storeVars, pickVars, tickVars,
                 statusVars>>

\* scan_btc_15m_by_slug with the bounds of runtime.py 122-123
Scan ==
    /\ last_scan = "none"
    /\ LET r == scan_run(gamma.probe, gamma.search, min_tte, max_tte)
       IN /\ scanned' = r.out
          /\ searched' = r.searched
          /\ last_scan' = IF r.out = <<>> THEN "raised" ELSE "found"
    /\ UNCHANGED <<gamma, nonScanVars>>

NextScan == Scan

SpecScan == ScanInit /\ [][NextScan]_vars

---------------------------------------------------------------------------
\* bot/execution.py, persistence: a PaperExecution constructed with a
\* state_path (the ledger of SpecLedger has none).  file is the content of
\* the state file, last_save_age the time since _last_save_ts, capped at
\* save_debounce; save_result is the outcome of the _maybe_save call of the
\* last operation ("none" without a call), save_raised whether that call
\* raised into the operation, save_failed records that a save
\* of this ledger object has failed, loads counts the constructions.

\* the data dict of _maybe_save as the file holds it; bad = k > 0 says that
\* the k-th value read by the loader has a type its conversion rejects
Persisted(L) ==
    [kind |-> "data", cash |-> L.cash, inv |-> L.inv, avg_cost |-> L.avg_cost,
     realized_pnl |-> L.realized_pnl, wins |-> L.wins, losses |-> L.losses,
     bad |-> 0]

Unparsable == [kind |-> "unparsable"]

\* what the file system may do to a save that is not debounced
SaveOutcomes == {"saved", "mkdir_failed", "write_failed", "replace_failed"}

\* _maybe_save with the data written straight onto the state file
_maybe_save_in_place(L, f, age, outcome) ==
    IF age < save_debounce THEN [file |-> f, age |-> age, result |-> "skipped", raised |-> FALSE]
    ELSE IF outcome = "saved"
         THEN [file |-> Persisted(L), age |-> 0, result |-> "saved", raised |-> FALSE]
    ELSE IF outcome = "write_failed"
         THEN [file |-> Unparsable, age |-> age, result |-> outcome, raised |-> FALSE]
    ELSE [file |-> f, age |-> age, result |-> outcome,
          raised |-> (outcome = "mkdir_failed")]

\* _maybe_save(force=False): the file and the time since _last_save_ts
\* after the call, what became of the save, and whether the call raised.
\* mkdir (execution.py 288) is outside the try block that catches the
\* failures of write_text and os.replace (298-305).
_maybe_save(L, f, age, outcome) ==
    IF age < save_debounce THEN [file |-> f, age |-> age, result |-> "skipped", raised |-> FALSE]
    ELSE IF outcome = "saved"
         THEN [file |-> Persisted(L), age |-> 0, result |-> "saved", raised |-> FALSE]
    ELSE [file |-> f, age |-> age, result |-> outcome,
          raised |-> (outcome = "mkdir_failed")]

\* _load_state_if_present leaving inv as __init__ made it
_load_state_without_inv(L, f) ==
    IF f.kind # "data" THEN L
    ELSE LET upto == IF f.bad = 0 THEN 6 ELSE f.bad - 1
         IN [cash |-> IF upto >= 1 THEN f.cash ELSE L.cash,
             inv |-> L.inv,
             avg_cost |-> IF upto >= 3 THEN f.avg_cost ELSE L.avg_cost,
             realized_pnl |-> IF upto >= 4 THEN f.realized_pnl ELSE L.realized_pnl,
             wins |-> IF upto >= 5 THEN f.wins ELSE L.wins,
             losses |-> IF upto >= 6 THEN f.losses ELSE L.losses,
             orders |-> L.orders]

\* _load_state_if_present: the values are converted and assigned one after
\* the other, and the first conversion that raises ends the load
_load_state_if_present(L, f) ==
    IF f.kind # "data" THEN L
    ELSE LET upto == IF f.bad = 0 THEN 6 ELSE f.bad - 1
         IN [cash |-> IF upto >= 1 THEN f.cash ELSE L.cash,
             inv |-> IF upto >= 2 THEN f.inv ELSE L.inv,
             avg_cost |-> IF upto >= 3 THEN f.avg_cost ELSE L.avg_cost,
             realized_pnl |-> IF upto >= 4 THEN f.realized_pnl ELSE L.realized_pnl,
             wins |-> IF upto >= 5 THEN f.wins ELSE L.wins,
             losses |-> IF upto >= 6 THEN f.losses ELSE L.losses,
             orders |-> L.orders]

StorePrices == {820}
StoreSizes == {30}
StoreTops == {NoTop, <<820, 830>>}

nonStoreVars == <<engineVars, loopVars, histVars, scanVars, rtVars, pickVars,
                  tickVars, statusVars>>

\* an operation that leaves the ledger L and ends in _maybe_save
SaveAfter(L) ==
    \E outcome \in SaveOutcomes :
       LET r == _maybe_save(L, file, last_save_age, outcome)
       IN /\ SetLedger(L)
          /\ file' = r.file
          /\ last_save_age' = r.age
          /\ save_result' = r.result
          /\ save_raised' = r.raised
          /\ save_failed' = (save_failed \/ r.result \notin {"saved", "skipped"})

\* an operation that leaves the ledger L and does not call _maybe_save
NoSave(L) ==
    /\ SetLedger(L)
    /\ save_result' = "none"
    /\ save_raised' = FALSE
    /\ UNCHANGED <<file, last_save_age, save_failed>>

SPlaceBuy ==
    /\ Len(orders) < MaxStoreOrders
    /\ \E p \in StorePrices, sz \in StoreSizes :
          SaveAfter(place_post_only_limit_buy(Ledger, 1, p, sz))
    /\ UNCHANGED <<price_cache, loads, nonStoreVars>>

SPlaceSell ==
    /\ Len(orders) < MaxStoreOrders
    /\ \E p \in StorePrices, sz \in StoreSizes :
          SaveAfter(place_limit_sell(Ledger, 1, p, sz))
    /\ UNCHANGED <<price_cache, loads, nonStoreVars>>

\* cancel_order saves only when it cancelled (execution.py 83-89)
SCancel ==
    /\ \E oid \in 1 .. MaxStoreOrders + 1 :
          LET L1 == cancel_order(Ledger, oid)
          IN IF L1 # Ledger THEN SaveAfter(L1) ELSE NoSave(L1)
    /\ UNCHANGED <<price_cache, loads, nonStoreVars>>

\* snapshot: the sweep saves only when it filled an order (224-225)
SSnapshot ==
    /\ LET L1 == snapshot(Ledger, price_cache)
       IN IF L1 # Ledger THEN SaveAfter(L1) ELSE NoSave(L1)
    /\ UNCHANGED <<price_cache, loads, nonStoreVars>>

SBook ==
    /\ \E top \in StoreTops : price_cache' = [price_cache EXCEPT ![1] = top]
    /\ save_result' = "none"
    /\ save_raised' = FALSE
    /\ UNCHANGED <<ledgerVars, file, last_save_age, save_failed, loads, nonStoreVars>>

\* One debounce window of wall-clock time passes between two calls (calls
\* closer to each other than that happen with no STick between them).
STick ==
    /\ orders' = [i \in DOMAIN orders |->
                     IF orders[i].status = "open"
                     THEN [orders[i] EXCEPT !.age = Min(@ + save_debounce, fill_delay_sec)]
                     ELSE orders[i]]
    /\ last_save_age' = Min(last_save_age + save_debounce, save_debounce)
    /\ save_result' = "none"
    /\ save_raised' = FALSE
    /\ UNCHANGED <<cash, inv, avg_cost, realized_pnl, wins, losses, price_cache,
                   file, save_failed, loads, nonStoreVars>>

NextStore ==
    \/ SPlaceBuy
    \/ SPlaceSell
    \/ SCancel
    \/ SSnapshot
    \/ SBook
    \/ STick

SpecStore == Init /\ [][NextStore]_vars

---------------------------------------------------------------------------
\* PaperExecution.__init__ on a state file left by an earlier process and
\* by whatever happened to it since.

\* what may have become of a state file while no process held it
Damaged(f) ==
    {f, Unparsable} \cup {[f EXCEPT !.bad = k] : k \in 1 .. 6}

LoadFiles == {NoFile} \cup UNION {Damaged(Persisted(L)) : L \in SavedLedgers}

LoadInit == \E f \in LoadFiles : InitFrom(ScalpRisk, NoAnswer, f, FreshLedger)

\* execution.py 39-66: the defaults, then _load_state_if_present
Construct ==
    /\ loads = 0
    /\ loads' = loads + 1
    /\ SetLedger(_load_state_if_present(FreshLedger, file))
    /\ last_save_age' = save_debounce
    /\ save_result' = "none"
    /\ save_raised' = FALSE
    /\ save_failed' = FALSE
    /\ UNCHANGED <<file, price_cache, nonStoreVars>>

NextLoad == Construct

SpecLoad == LoadInit /\ [][NextLoad]_vars

---------------------------------------------------------------------------
\* A process that trades, saves, ends and is started again on the state file
\* it left: buys placed and filled as in SpecStore, the sizer's closed
\* trades, and the construction of the next process.

MaxRestarts == 1

\* The next process: PaperExecution.__init__ (execution.py 39-66) builds the
\* defaults and loads the file, the price cache starts empty (runtime.py
\* 126-131) and ScalpMode.__init__ builds a new DynamicSizer
\* (scalp_mode.py 80, risk.py 53-55).
Restart ==
    /\ loads < MaxRestarts
    /\ loads' = loads + 1
    /\ SetLedger(_load_state_if_present(FreshLedger, file))
    /\ price_cache' = [a \in Assets |-> NoTop]
    /\ book' = [a \in Assets |-> NoTop]
    /\ pos' = <<>>
    /\ bet_frac' = risk.bet_frac_start
    /\ last_save_age' = save_debounce
    /\ save_result' = "none"
    /\ save_raised' = FALSE
    /\ save_failed' = FALSE
    /\ UNCHANGED <<file, risk, loopVars, histVars, scanVars, rtVars, pickVars, tickVars,
                   statusVars>>

NextRestart ==
    \/ SPlaceBuy
    \/ SSnapshot
    \/ SBook
    \/ STick
    \/ SizerWin
    \/ SizerLoss
    \/ Restart

SpecRestart == Init /\ [][NextRestart]_vars

---------------------------------------------------------------------------
\* bot/runtime.py: BotRuntime.start and stop, called by any number of
\* request handlers, and the run-loop tasks they create and cancel.  A task
\* is "new" (created, not yet run), "sleep" (suspended in a sleep of the
\* loop or of step()), "stopfeed" (suspended in _stop_feed, awaiting the old
\* feed task during a rollover) or "done"; cancel is a cancellation requested
\* and not yet delivered.  feeds holds the tasks whose feed task is alive.

Task(st) == [state |-> st, cancel |-> FALSE]

nonRtVars == <<ledgerVars, price_cache, engineVars, loopVars, histVars, scanVars,
               storeVars, pickVars, tickVars>>

\* is_running(): runtime.py 58-59
is_running == rt_task # 0 /\ tasks[rt_task].state # "done"

\* _publish, once for each status of sts in turn (runtime.py 66-70):
\* acquiring the free lock of the condition does not suspend, so no
\* consumer runs between two of them
Publishes(sts) ==
    /\ rt_pubs' = sts
    /\ rt_snapshot' = Snap(sts[Len(sts)])
    /\ seq_moved' = TRUE
    /\ seen' = seen

NoPublish == UNCHANGED statusVars

\* start(): runtime.py 43-47
Start ==
    /\ IF is_running
       THEN UNCHANGED <<rt_task, tasks, stop_evt>>
       ELSE /\ Len(tasks) < MaxTasks
            /\ stop_evt' = FALSE
            /\ tasks' = Append(tasks, Task("new"))
            /\ rt_task' = Len(tasks) + 1
    /\ NoPublish
    /\ UNCHANGED <<stoppers, feeds, stops_completed, nonRtVars>>

\* task.cancel(): nothing on a finished task
Cancel(ts, t) ==
    IF ts[t].state = "done" THEN ts ELSE [ts EXCEPT ![t].cancel = TRUE]

\* stop() up to "await self._task": runtime.py 49-54.  Awaiting a finished
\* task does not suspend, and stop() runs on to its end (55-56).
StopCall ==
    /\ stops_completed + Len(stoppers) < MaxStops
    /\ stop_evt' = TRUE
    /\ IF rt_task # 0 /\ tasks[rt_task].state # "done"
       THEN /\ Len(stoppers) < MaxStoppers
            /\ tasks' = Cancel(tasks, rt_task)
            /\ stoppers' = Append(stoppers, rt_task)
            /\ NoPublish
            /\ UNCHANGED <<rt_task, stops_completed>>
       ELSE /\ rt_task' = 0
            /\ stops_completed' = stops_completed + 1
            /\ Publishes(<<"stopped">>)
            /\ UNCHANGED <<tasks, stoppers>>
    /\ UNCHANGED <<feeds, nonRtVars>>

\* stop() resumed once the task it awaits is done: runtime.py 55-56
StopResume ==
    /\ \E i \in DOMAIN stoppers :
          /\ tasks[stoppers[i]].state = "done"
          /\ stoppers' = [j \in 1 .. (Len(stoppers) - 1) |->
                             IF j < i THEN stoppers[j] ELSE stoppers[j + 1]]
    /\ rt_task' = 0
    /\ stops_completed' = stops_completed + 1
    /\ Publishes(<<"stopped">>)
    /\ UNCHANGED <<tasks, stop_evt, feeds, nonRtVars>>

\* _run from the scan of start_new_market on (runtime.py 162-192), for a
\* task that holds no feed: a new feed task and on into the loop's sleep,
\* or the scan's exception and the end of the task (251-263): the except
\* clause publishes "error" and the finally clause "stopped".  before are
\* the statuses the step published ahead of the scan, after those it
\* publishes when the scan has answered.
ScanAndFeed(t, before, after) ==
    \E g \in GammaAnswers :
       IF scan_btc_15m_by_slug(g.probe, g.search, min_tte, max_tte) = <<>>
       THEN /\ tasks' = [tasks EXCEPT ![t] = Task("done")]
            /\ feeds' = feeds \ {t}
            /\ Publishes(before \o <<"error", "stopped">>)
       ELSE /\ tasks' = [tasks EXCEPT ![t] = Task("sleep")]
            /\ feeds' = feeds \cup {t}
            /\ IF before \o after = <<>> THEN NoPublish
               ELSE Publishes(before \o after)

\* The first run of a task: a cancellation requested before it is thrown
\* into the coroutine before its first line, so that neither the try nor
\* the finally of _run is entered; else runtime.py 78-247 up to the first
\* sleep, publishing "starting" (194) and, in the loop, "running" (217).
TaskStart ==
    /\ \E t \in DOMAIN tasks :
          /\ tasks[t].state = "new"
          /\ IF tasks[t].cancel
             THEN /\ tasks' = [tasks EXCEPT ![t] = Task("done")]
                  /\ NoPublish
                  /\ UNCHANGED feeds
             ELSE ScanAndFeed(t, <<"starting">>, <<"running">>)
    /\ UNCHANGED <<rt_task, stop_evt, stoppers, stops_completed, nonRtVars>>

\* A task resumed from a sleep: the CancelledError is caught at 249-250 and
\* the task ends through the finally block (261-263), which publishes
\* "stopped"; with _stop_evt set the loop ends (197) the same way; else the
\* loop goes on, publishes "running" (217), and at a rollover it stops the
\* old feed and waits for it (158-160, 72-76).
TaskRun ==
    /\ \E t \in DOMAIN tasks :
          /\ tasks[t].state = "sleep"
          /\ IF tasks[t].cancel \/ stop_evt
             THEN /\ tasks' = [tasks EXCEPT ![t] = Task("done")]
                  /\ Publishes(<<"stopped">>)
             ELSE /\ tasks' = [tasks EXCEPT ![t] = Task("stopfeed")]
                  /\ Publishes(<<"running">>)
    /\ UNCHANGED <<rt_task, stop_evt, stoppers, feeds, stops_completed, nonRtVars>>

\* The old feed task has ended and _stop_feed returns: a CancelledError
\* thrown into the run-loop task meanwhile is suppressed with the feed's
\* own (runtime.py 75-76), and start_new_market goes on to the scan.
TaskAfterStopFeed ==
    /\ \E t \in DOMAIN tasks :
          /\ tasks[t].state = "stopfeed"
          /\ ScanAndFeed(t, <<>>, <<>>)
    /\ UNCHANGED <<rt_task, stop_evt, stoppers, stops_completed, nonRtVars>>

NextRuntime ==
    \/ Start
    \/ StopCall
    \/ StopResume
    \/ TaskStart
    \/ TaskRun
    \/ TaskAfterStopFeed

SpecRuntime == Init /\ [][NextRuntime]_vars

\* A status consumer's wait_for_update(last_seq) returning (runtime.py
\* 61-64): it runs when _seq has moved, between two steps of the other
\* tasks, and calls again with the _seq it got.
WaitForUpdate ==
    /\ seq_moved
    /\ seen' = rt_snapshot
    /\ seq_moved' = FALSE
    /\ UNCHANGED <<rt_snapshot, rt_pubs, rtVars, nonRtVars>>

NextStatus ==
    \/ Start
    \/ StopCall
    \/ StopResume
    \/ TaskStart
    \/ TaskRun
    \/ TaskAfterStopFeed
    \/ WaitForUpdate

SpecStatus == Init /\ [][NextStatus]_vars

---------------------------------------------------------------------------
\* Properties

\* C1: whatever the sequence of ledger operations and book updates, the
\* inventory of every asset is never negative: a sell fills for at most the
\* inventory held.
C1_InventoryNonNegative == \A a \in Assets : inv[a] >= 0

\* a sell of 60 has filled against an inventory of 30 and left none
C1_Witness ==
    /\ Len(orders) = 2
    /\ orders[1].side = "buy" /\ orders[1].status = "filled" /\ orders[1].size = 30
    /\ orders[2].side = "sell" /\ orders[2].status = "filled" /\ orders[2].size = 60
    /\ inv[orders[2].asset_id] = 0

\* C7: an order's status only goes from open to filled or from open to
\* canceled; a filled or canceled order keeps its status, fill price and fill
\* time for ever (so a canceled order is never filled); cancel_order on a
\* filled, canceled or unknown order changes nothing.
C7_TerminalOrdersFrozen ==
    /\ [](\A oid \in 1 .. Len(orders) + 1 :
            (oid \notin DOMAIN orders \/ orders[oid].status # "open")
               => cancel_order(Ledger, oid) = Ledger)
    /\ [][\A i \in DOMAIN orders :
            /\ i \in DOMAIN orders'
            /\ orders[i].status \in {"open", "filled", "canceled"}
            /\ orders'[i].status \in {"open", "filled", "canceled"}
            /\ orders[i].status # "open" =>
                  /\ orders'[i].status = orders[i].status
                  /\ orders'[i].avg_fill_price = orders[i].avg_fill_price
                  /\ orders'[i].filled_ts = orders[i].filled_ts]_vars

\* a sweep has filled the second buy and passed over the first, canceled
\* after its fill delay, at the same price
C7_Witness ==
    /\ Len(orders) = 2
    /\ orders[1].side = "buy" /\ orders[1].status = "canceled"
    /\ orders[1].age >= fill_delay_sec /\ orders[1].avg_fill_price = None
    /\ orders[2].side = "buy" /\ orders[2].status = "filled"
    /\ orders[1].price = orders[2].price /\ orders[1].asset_id = orders[2].asset_id

\* C9: starting inside [bet_frac_min, bet_frac_max], the bet fraction stays
\* inside after any sequence of on_trade_closed calls.
C9_BetFracClamped == risk.bet_frac_min <= bet_frac /\ bet_frac <= risk.bet_frac_max

\* a loss whose step would have passed the maximum
C9_Witness ==
    /\ closed_lost = 1 /\ closed_won = 0
    /\ risk.bet_frac_start + risk.bet_frac_step > risk.bet_frac_max
    /\ bet_frac = risk.bet_frac_max

\* The loop task runs a step of the engine (or resumes one) in this
\* transition: it is the only one that starts a sleep.
StepTaken == sleep_left = 0 /\ sleep_left' # 0 /\ market' = market

NewOrders == {i \in DOMAIN orders' : i \notin DOMAIN orders}

\* C2: an engine has at most one position; of the entry buys an engine
\* placed at most one is open in the ledger; and an entry buy is placed only
\* by a step() that starts with no position.
C2_OnePositionOneEntry ==
    /\ [](/\ Len(pos) <= 1
          /\ \A m \in {placed_by[i].eng : i \in DOMAIN placed_by} :
                Cardinality({i \in DOMAIN orders :
                               /\ placed_by[i] = [eng |-> m, kind |-> "entry"]
                               /\ orders[i].status = "open"}) <= 1)
    /\ [][(\E i \in NewOrders : placed_by'[i].kind = "entry")
            => pos = <<>> /\ pc = "run"]_vars

\* the engine's first entry was canceled and its second entry is open
C2_Witness ==
    \E i, j \in DOMAIN orders :
       /\ i < j
       /\ placed_by[i] = [eng |-> market, kind |-> "entry"]
       /\ placed_by[j] = [eng |-> market, kind |-> "entry"]
       /\ orders[i].status = "canceled"
       /\ orders[j].status = "open"
       /\ pos # <<>>

\* C3: on the stop-loss path the engine calls on_trade_closed(won=False)
\* and drops the position only once an exit sell of the position has been
\* reported filled.
C3_LossOnlyAfterExitFilled ==
    [][closed_lost' > closed_lost =>
         \E i \in DOMAIN orders' :
            /\ placed_by'[i].kind = "exit"
            /\ i > pos[1].tp_order_id
            /\ orders'[i].status = "filled"]_vars

\* C4: the engine drops a pending entry (the TTL cancel) only with the entry
\* order left canceled, never filled, whatever sweeps and book updates came
\* before.
C4_TtlCancelOnlyUnfilled ==
    [][(pos # <<>> /\ pos' = <<>> /\ pos[1].fill_price = None /\ market' = market)
         => orders'[pos[1].entry_order_id].status = "canceled"]_vars

\* The stop-loss condition: a step() starts with a filled position whose
\* take-profit order is not filled and a bid at or under sl_price.
SlDue ==
    /\ LoopAwake /\ ~RolloverDue
    /\ pos # <<>>
    /\ pos[1].fill_price # None
    /\ get_order(snapshot(Ledger, price_cache), price_cache,
                 pos[1].tp_order_id)[2].status # "filled"
    /\ book[pos[1].asset_id][1] # None
    /\ book[pos[1].asset_id][1] <= pos[1].sl_price

\* step() cancels the take-profit order and places one plain limit sell at
\* the current bid for the position's quantity.
SlExitPlaced ==
    LET p == pos[1]
        x == Len(orders) + 1
    IN /\ Len(orders') = x
       /\ orders'[p.tp_order_id].status = "canceled"
       /\ placed_by'[x].kind = "exit"
       /\ orders'[x].side = "sell"
       /\ orders'[x].asset_id = p.asset_id
       /\ orders'[x].price = book[p.asset_id][1]
       /\ orders'[x].size = p.qty
       /\ ~orders'[x].post_only
       /\ closed_won' = closed_won
       /\ \/ pc' = "sl1" /\ pos' = pos /\ closed_lost' = closed_lost
          \/ pc' = "run" /\ pos' = <<>> /\ closed_lost' = closed_lost + 1

\* A resumed exit counts a poll, at most PollCount per exit order and two
\* exit orders, or ends with exactly one on_trade_closed(won=False) and no
\* position.
SlExitEnds ==
    (pc \in {"sl1", "sl2"} /\ StepTaken) =>
       /\ closed_won' = closed_won
       /\ \/ /\ pc' = pc
             /\ polls' = polls + 1 /\ polls' <= PollCount
             /\ pos' = pos /\ closed_lost' = closed_lost
          \/ /\ pc = "sl1" /\ pc' = "sl2" /\ polls = PollCount
             /\ pos' = pos /\ closed_lost' = closed_lost
          \/ /\ pc' = "run" /\ pos' = <<>>
             /\ closed_lost' = closed_lost + 1
             /\ bet_frac' = Min(risk.bet_frac_max, bet_frac + risk.bet_frac_step)

\* C5, as stated: a step() that runs with a filled position, the TP order
\* not filled and the bid at or under sl_price cancels the TP order and
\* places the exit sell at the bid for the position's quantity; the exit
\* then ends with exactly one on_trade_closed(won=False) and no position.
C5_StopLossExitAlways ==
    [][((SlDue /\ StepTaken) => SlExitPlaced) /\ SlExitEnds]_vars

\* C5, amended: the same, when all four book values are present.
C5_StopLossExit ==
    [][((SlDue /\ BooksPresent(book, market) /\ StepTaken) => SlExitPlaced)
       /\ SlExitEnds]_vars

\* the exit sell at 0.69 has filled and the trade is closed as a loss
C5_Witness ==
    /\ pos = <<>>
    /\ closed_lost = 1
    /\ \E i \in DOMAIN orders :
          /\ placed_by[i].kind = "exit"
          /\ orders[i].price = 690
          /\ orders[i].status = "filled"

\* A step() starts with a pending entry that is still open and older than
\* entry_ttl_seconds.
TtlDue ==
    /\ LoopAwake /\ ~RolloverDue
    /\ pos # <<>>
    /\ pos[1].fill_price = None
    /\ pos[1].entry_age > entry_ttl_seconds
    /\ snapshot(Ledger, price_cache).orders[pos[1].entry_order_id].status = "open"

\* step() cancels the entry and returns with no position: no order placed,
\* no fill, the counters and the bet fraction as they were.
TtlCancelled ==
    LET L0 == snapshot(Ledger, price_cache)
    IN /\ pos' = <<>>
       /\ orders' = [L0.orders EXCEPT ![pos[1].entry_order_id].status = "canceled"]
       /\ inv' = L0.inv /\ cash' = L0.cash
       /\ wins' = L0.wins /\ losses' = L0.losses
       /\ closed_won' = closed_won /\ closed_lost' = closed_lost
       /\ bet_frac' = bet_frac
       /\ pc' = "run"

\* C6, as stated: whenever step() runs with a pending entry still open and
\* older than entry_ttl_seconds, it cancels the entry and returns with no
\* position, no TP/SL order, the counters and the bet fraction unchanged.
C6_TtlCancelAlways == [][(TtlDue /\ StepTaken) => TtlCancelled]_vars

\* C6, amended: the same, when all four book values are present.
C6_TtlCancelWithBooks ==
    [][(TtlDue /\ BooksPresent(book, market) /\ StepTaken) => TtlCancelled]_vars

\* an entry was canceled by the TTL branch and nothing else happened
C6_Witness ==
    /\ pos = <<>>
    /\ Len(orders) = 1
    /\ placed_by[1].kind = "entry"
    /\ orders[1].status = "canceled"
    /\ closed_won = 0 /\ closed_lost = 0
    /\ bet_frac = risk.bet_frac_start

\* C8: when an exit sell exists, the take-profit order of its position was
\* canceled before it was placed: the two are never both filled.
C8_TpCanceledBeforeExit ==
    \A i \in DOMAIN orders :
       placed_by[i].kind = "exit" =>
          \E j \in 1 .. (i - 1) :
             /\ placed_by[j].kind = "tp"
             /\ \A k \in (j + 1) .. (i - 1) : placed_by[k].kind = "exit"
             /\ orders[j].status = "canceled"
             /\ ~(orders[j].status = "filled" /\ orders[i].status = "filled")

\* an exit sell has filled next to its canceled take-profit order
C8_Witness ==
    \E i, j \in DOMAIN orders :
       /\ j < i
       /\ placed_by[j].kind = "tp" /\ orders[j].status = "canceled"
       /\ orders[j].age >= fill_delay_sec
       /\ placed_by[i].kind = "exit" /\ orders[i].status = "filled"

\* C10: a scan that finds no eligible window when a market is due for
\* rotation does not end the rotation loop.
C10_LoopSurvivesEmptyScan == (market >= 1 /\ last_scan = "raised") => pc # "done"

\* the run-loop tasks that are not done
AliveTasks == {t \in DOMAIN tasks : tasks[t].state # "done"}

\* C11: when a stop() call returns, no run-loop task and no feed task a run
\* loop started is still running.
C11_StopLeavesNothingRunning ==
    [][stops_completed' > stops_completed
         => (AliveTasks' = {} /\ feeds' = {})]_vars

\* C12: at most one run-loop task is alive at a time, and is_running() is
\* true exactly while one is alive.
C12_OneRunLoop ==
    /\ Cardinality(AliveTasks) <= 1
    /\ is_running <=> (AliveTasks # {})

\* the persisted part of the ledger
LedgerState == [cash |-> cash, inv |-> inv, avg_cost |-> avg_cost,
                realized_pnl |-> realized_pnl, wins |-> wins, losses |-> losses]

FreshState == [cash |-> StartCash, inv |-> [a \in Assets |-> 0],
               avg_cost |-> [a \in Assets |-> RatInt(0)],
               realized_pnl |-> RatInt(0), wins |-> 0, losses |-> 0]

\* the state file holds the ledger (no file standing for the fresh state)
FileHoldsLedger ==
    IF file.kind = "data" THEN file = Persisted(Ledger)
    ELSE file.kind = "missing" /\ LedgerState = FreshState

\* no order is open, so nothing changes the ledger any more, and the
\* debounce window of the last save is over
Quiet ==
    /\ \A i \in DOMAIN orders : orders[i].status # "open"
    /\ last_save_age >= save_debounce

\* C13: every change of ledger state is durably saved: once no further
\* change happens (and no save has failed, and nothing damaged the file),
\* the persisted state equals the in-memory ledger state.
C13_ChangesSaved ==
    (Quiet /\ ~save_failed /\ (file.kind = "missing" \/ (file.kind = "data" /\ file.bad = 0)))
        => FileHoldsLedger

\* C14: a ledger constructed on a missing or corrupt state file starts from
\* the complete default fresh state.
C14_CorruptFileStartsFresh ==
    (loads > 0 /\ (file.kind # "data" \/ file.bad # 0)) => LedgerState = FreshState

\* C15: a save that fails while writing the temporary file or while renaming
\* it leaves the state file as it was, changes no in-memory state (the
\* ledger is what the operation alone made of it, the time of the last save
\* stays) and raises nothing.
C15_FailedSaveHarmless ==
    [][save_result' \in {"write_failed", "replace_failed"}
          => /\ file' = file
             /\ ~save_raised'
             /\ last_save_age' = last_save_age
             /\ \/ LedgerState' = LedgerState
                \/ Ledger' = snapshot(Ledger, price_cache)]_vars

C15_Witness ==
    /\ save_result \in {"write_failed", "replace_failed"}
    /\ file.kind = "data"
    /\ file # Persisted(Ledger)

\* a candidate the scan is to accept: fetched, well-formed metadata, and
\* min_tte < tte <= max_tte
Eligible(c) ==
    /\ c.fetch /\ c.markets >= 1 /\ c.tokens >= 2 /\ c.end
    /\ min_tte < c.tte /\ c.tte <= max_tte

EligibleProbe == {i \in DOMAIN gamma.probe : Eligible(gamma.probe[i])}

EligibleEvents ==
    {i \in DOMAIN gamma.search.events :
        gamma.search.events[i].slug /\ Eligible(gamma.search.events[i])}

\* C16: when some probed candidate is well-formed with min_tte < tte <=
\* max_tte, the scan returns one of these with the smallest tte: tte =
\* min_tte is rejected, tte = max_tte accepted, and of ttes 50, 700 and
\* 1100 it returns 700.
C16_SmallestTteInWindow ==
    (last_scan # "none" /\ EligibleProbe # {})
        => /\ scanned # <<>>
           /\ scanned[1].pass = "slug"
           /\ scanned[1].slug \in EligibleProbe
           /\ scanned[1].tte = gamma.probe[scanned[1].slug].tte
           /\ \A i \in EligibleProbe : scanned[1].tte <= gamma.probe[i].tte
           /\ scanned[1].tte # min_tte
           /\ (\E i \in DOMAIN gamma.probe : gamma.probe[i] = Cand(max_tte))
                 => scanned[1].tte <= max_tte
           /\ gamma.probe = <<Cand(50), Cand(700), Cand(1100)>> => scanned[1].tte = 700

C16_Witness ==
    /\ last_scan = "found"
    /\ gamma.probe = <<Cand(50), Cand(700), Cand(1100)>>
    /\ scanned[1].tte = 700

RoundTripSellFills(i) ==
    /\ i >= 2
    /\ orders[i].side = "sell" /\ orders[i].status = "open"
    /\ orders'[i].status = "filled"
    /\ orders[i - 1].side = "buy" /\ orders[i - 1].status = "filled"
    /\ orders[i - 1].asset_id = orders[i].asset_id
    /\ orders[i - 1].price = orders[i].price
    /\ orders[i - 1].size = orders[i].size

\* C18: whatever the ledger held before, a buy of size s at price p that
\* fills, followed by a sell of size s at price p that fills, realizes a
\* P&L of 0, counts neither a win nor a loss, and brings the inventory
\* back to what it was before the buy.
C18_RoundTripZero ==
    [][\A i \in DOMAIN orders :
          RoundTripSellFills(i)
             => /\ realized_pnl' = realized_pnl
                /\ wins' = wins
                /\ losses' = losses
                /\ inv'[orders[i].asset_id]
                      = inv[orders[i].asset_id] - orders[i].size]_vars

\* the step fills order i and no other
OnlyFill(i) ==
    /\ Len(orders') = Len(orders)
    /\ orders[i].status = "open" /\ orders'[i].status = "filled"
    /\ \A j \in DOMAIN orders : j # i => orders'[j].status = orders[j].status

\* order i is an open buy the ledger cannot pay, and no other order is open
UnfundedBuy(i) ==
    /\ orders[i].side = "buy" /\ orders[i].status = "open"
    /\ orders[i].price * orders[i].size > cash
    /\ \A j \in DOMAIN orders : j # i => orders[j].status # "open"

\* the scenario of the specification, in whole shares and thousandths of a
\* dollar: cash 500, a buy of 50 at 0.80, aged, bid 0.80
ScenarioLedger ==
    [FreshLedger EXCEPT
        !.cash = 500 * One,
        !.orders = <<[Order(1, "buy", 800, 50, TRUE) EXCEPT !.age = fill_delay_sec]>>]

ScenarioFilled == FillOne(ScenarioLedger, 1, [a \in Assets |-> <<800, 810>>])

SoldQty(i) == Min(inv[orders[i].asset_id], orders[i].size)

SellDelta(i) ==
    RatMul(RatInt(SoldQty(i)),
           RatSub(RatInt(orders[i].price), avg_cost[orders[i].asset_id]))

\* what the fill of sell order i does to P&L, cash and inventory
SellFillAmounts(i) ==
    /\ SoldQty(i) > 0
    /\ realized_pnl' = RatAdd(realized_pnl, SellDelta(i))
    /\ cash' = cash + orders[i].price * SoldQty(i)
    /\ inv'[orders[i].asset_id] = inv[orders[i].asset_id] - SoldQty(i)

\* C20 as stated: a sell fill sells min(held, size), adds qty * (price -
\* average cost) to the realized P&L and price * qty to the cash, takes qty
\* off the inventory, and counts a win when that delta is positive, a loss
\* when it is negative, neither when it is zero.
C20_SellFillBySign ==
    [][\A i \in DOMAIN orders :
          (orders[i].side = "sell" /\ OnlyFill(i))
             => /\ SellFillAmounts(i)
                /\ wins' = wins + (IF RatLt(RatInt(0), SellDelta(i)) THEN 1 ELSE 0)
                /\ losses' = losses + (IF RatLt(SellDelta(i), RatInt(0)) THEN 1 ELSE 0)]_vars

\* C20, amended: the same amounts; a win is counted when the delta exceeds
\* 1e-9 USD, a loss when it is below -1e-9 USD, and neither in between.
C20_SellFillByBand ==
    [][\A i \in DOMAIN orders :
          (orders[i].side = "sell" /\ OnlyFill(i))
             => /\ SellFillAmounts(i)
                /\ wins' = wins + (IF RatLt(<<1, 100>>, SellDelta(i)) THEN 1 ELSE 0)
                /\ losses' = losses
                                + (IF RatLt(SellDelta(i), <<0 - 1, 100>>) THEN 1 ELSE 0)]_vars

\* a sale has realized a gain too small to count
C20_Witness ==
    /\ \E i \in DOMAIN orders : orders[i].side = "sell" /\ orders[i].status = "filled"
    /\ RatLt(RatInt(0), realized_pnl)
    /\ wins = 0 /\ losses = 0

---------------------------------------------------------------------------
\* The sweep and the orders it is due to fill.

\* sell order i is open, has aged past the fill delay, and the bid of its
\* asset is at or above its price
SellDue(i) ==
    /\ orders[i].side = "sell"
    /\ orders[i].status = "open"
    /\ orders[i].age >= fill_delay_sec
    /\ price_cache[orders[i].asset_id][1] # None
    /\ price_cache[orders[i].asset_id][1] >= orders[i].price

\* C21: every open sell order that has aged past the fill delay and whose
\* asset's bid is at or above its price is marked filled by the next sweep,
\* whatever inventory is held (less than its size, or none); it never stays
\* resting.
C21_DueSellFilledBySweep ==
    \A i \in DOMAIN orders :
        (SellDue(i) /\ price_cache[orders[i].asset_id][2] # None)
           => snapshot(Ledger, price_cache).orders[i].status = "filled"

\* order i is open and cannot be filled yet: it is younger than the fill
\* delay, or its asset has no bid
NotDue(i) ==
    /\ orders[i].status = "open"
    /\ \/ orders[i].age < fill_delay_sec
       \/ price_cache[orders[i].asset_id][1] = None

\* an order without its age: the code keeps the time of creation, which no
\* operation changes, and the age is the clock's
Fields(o) == [o EXCEPT !.age = 0]

Amounts == <<cash, inv, avg_cost, realized_pnl, wins, losses>>

\* C22: an open order younger than the fill delay, or whose asset has no
\* bid, is changed by no operation but its own cancel, and while every open
\* order is such no operation changes cash, inventory, cost basis, P&L or
\* the counters; placing an order changes no other order and no amount.
C22_NotDueUntouched ==
    [][/\ \A i \in DOMAIN orders :
             NotDue(i) => \/ Fields(orders'[i]) = Fields(orders[i])
                          \/ orders'[i] = [orders[i] EXCEPT !.status = "canceled"]
       /\ (\A i \in DOMAIN orders : orders[i].status = "open" => NotDue(i))
             => Amounts' = Amounts
       /\ Len(orders') > Len(orders)
             => /\ Len(orders') = Len(orders) + 1
                /\ \A i \in DOMAIN orders : orders'[i] = orders[i]
                /\ orders'[Len(orders')].status = "open"
                /\ Amounts' = Amounts]_vars

\* a sweep has filled one order, and a younger order at the bid is open
C22_Witness ==
    /\ Len(orders) = 2
    /\ orders[1].status = "filled"
    /\ orders[2].side = "buy" /\ NotDue(2)
    /\ price_cache[orders[2].asset_id] = <<orders[2].price, orders[2].price + tick>>

\* C23: in a ledger started fresh, after every operation each asset whose
\* inventory is 0 has average cost 0.
C23_ZeroInventoryZeroCost ==
    \A a \in Assets : inv[a] = 0 => avg_cost[a] = RatInt(0)

\* a buy has filled and a sell has then sold the whole inventory
C23_Witness ==
    /\ Len(orders) = 2
    /\ orders[1].side = "buy" /\ orders[1].status = "filled"
    /\ orders[2].side = "sell" /\ orders[2].status = "filled"
    /\ inv[1] = 0 /\ avg_cost[1] = RatInt(0)

---------------------------------------------------------------------------
\* The engine's step().

\* a call of step() from the loop (not a resumed exit) starts
StepStarts == LoopAwake /\ ~RolloverDue /\ StepTaken

\* what the loop's snapshot() leaves of the order table for step()
Swept == snapshot(Ledger, price_cache).orders

\* C24: a step() that runs while any of the four book values is absent
\* places no order, cancels no order, does not call the sizer and leaves the
\* position unchanged, in every engine state.
C24_NoBooksNoOp ==
    [][(StepStarts /\ ~BooksPresent(book, market))
         => /\ pos' = pos
            /\ orders' = Swept
            /\ placed_by' = placed_by
            /\ bet_frac' = bet_frac
            /\ closed_won' = closed_won /\ closed_lost' = closed_lost
            /\ pc' = "run"]_vars

\* a step() has just run with a pending entry past its TTL and a book value
\* absent, and the entry is still open
C24_Witness ==
    /\ pc = "run" /\ sleep_left = SleepStep
    /\ ~BooksPresent(book, market)
    /\ pos # <<>>
    /\ pos[1].fill_price = None
    /\ EntryTtlExpired(pos[1])
    /\ orders[pos[1].entry_order_id].status = "open"

\* the engine is in the Filled state
FilledState == pos # <<>> /\ pos[1].fill_price # None

\* what get_order answers for the take-profit order of the position
TpStatus ==
    get_order(snapshot(Ledger, price_cache), price_cache, pos[1].tp_order_id)[2].status

\* the bid of the position's asset is at or under sl_price
BidUnderSl ==
    /\ book[pos[1].asset_id][1] # None
    /\ book[pos[1].asset_id][1] <= pos[1].sl_price

\* C25: in the Filled state the take-profit check comes first.  A step()
\* to which the TP order is reported filled calls on_trade_closed(won=true)
\* exactly once, drops the position and places no exit sell, even with the
\* bid at or under sl_price; a step() that finds neither the TP filled nor
\* the bid at or under sl_price leaves the position and the orders as they
\* are.
C25_TpBeforeSl ==
    [][/\ (StepStarts /\ BooksPresent(book, market) /\ FilledState
              /\ TpStatus = "filled")
            => /\ closed_won' = closed_won + 1
               /\ closed_lost' = closed_lost
               /\ bet_frac' = Max(risk.bet_frac_min, bet_frac - risk.bet_frac_step)
               /\ pos' = <<>>
               /\ pc' = "run"
               /\ orders' = Swept
               /\ placed_by' = placed_by
       /\ (StepStarts /\ FilledState /\ TpStatus # "filled" /\ ~BidUnderSl)
            => /\ pos' = pos
               /\ pc' = "run"
               /\ orders' = Swept
               /\ placed_by' = placed_by
               /\ bet_frac' = bet_frac
               /\ closed_won' = closed_won /\ closed_lost' = closed_lost]_vars

\* a step() is about to run with all four book values present, the
\* position's TP order filled in the ledger and the bid at or under sl_price
C25_Witness ==
    /\ LoopAwake /\ ~RolloverDue
    /\ BooksPresent(book, market)
    /\ FilledState
    /\ orders[pos[1].tp_order_id].status = "filled"
    /\ BidUnderSl

\* x is price * (100 + pct) / 100 rounded to a whole tick
BracketOf(x, price, pct) ==
    /\ x % risk.tick = 0
    /\ Abs(100 * x - price * (100 + pct)) * 2 <= 100 * risk.tick

\* C26: the engine goes from EntryPending to Filled only in a step() to
\* which the ledger reports the entry order filled; that step sets tp_price
\* and sl_price from the fill price and places exactly one post-only sell
\* at tp_price for the position's quantity.  No sell order is placed for a
\* position whose entry order is not filled, and a position gets at most
\* one TP order.
C26_FilledOnEntryFill ==
    /\ [](\A i, k \in DOMAIN orders :
             (i < k /\ placed_by[i].kind = "tp" /\ placed_by[k].kind = "tp")
                => \E j \in DOMAIN orders :
                      i < j /\ j < k /\ placed_by[j].kind = "entry")
    /\ [][ /\ (pos # <<>> /\ pos[1].fill_price = None
               /\ pos' # <<>> /\ pos'[1].fill_price # None)
             => LET p == pos[1]
                    q == pos'[1]
                    t == Len(orders) + 1
                IN /\ StepStarts
                   /\ Swept[p.entry_order_id].status = "filled"
                   /\ q.fill_price = Swept[p.entry_order_id].avg_fill_price
                   /\ BracketOf(q.tp_price, q.fill_price, risk.tp_pct)
                   /\ BracketOf(q.sl_price, q.fill_price, 0 - risk.sl_pct)
                   /\ Len(orders') = t
                   /\ placed_by'[t].kind = "tp"
                   /\ orders'[t] = Order(p.asset_id, "sell", q.tp_price, p.qty, TRUE)
                   /\ q = [p EXCEPT !.fill_price = q.fill_price,
                                    !.tp_price = q.tp_price,
                                    !.sl_price = q.sl_price,
                                    !.tp_order_id = t]
           /\ \A i \in NewOrders :
                 orders'[i].side = "sell"
                    => /\ pos # <<>>
                       /\ orders'[pos[1].entry_order_id].status = "filled"
                       /\ orders'[i].asset_id = pos[1].asset_id
           /\ (\E i \in NewOrders : placed_by'[i].kind = "tp")
                 => /\ pos # <<>> /\ pos[1].fill_price = None
                    /\ pos[1].tp_order_id = None
                    /\ Cardinality(NewOrders) = 1]_vars

\* a step() has just found the entry filled: the position is Filled and its
\* TP order was placed in this very slot
C26_Witness ==
    /\ pc = "run" /\ sleep_left = SleepStep
    /\ FilledState
    /\ orders[pos[1].entry_order_id].status = "filled"
    /\ pos[1].tp_order_id = Len(orders)
    /\ orders[Len(orders)].status = "open" /\ orders[Len(orders)].age = 0
    /\ pos[1].tp_price > pos[1].fill_price /\ pos[1].sl_price < pos[1].fill_price

---------------------------------------------------------------------------
\* The entry rule.

\* an asset is eligible: bid and ask present, 0 <= ask - bid <= max_spread,
\* and price_min <= bid <= price_max
EligibleAsset(bid, ask) ==
    /\ bid # None /\ ask # None
    /\ 0 <= ask - bid /\ ask - bid <= max_spread
    /\ price_min <= bid /\ bid <= price_max

\* the entry the rule gives for the arguments of the call
Entry(a) ==
    LET yes_ok == EligibleAsset(a.yes_bid, a.yes_ask)
        no_ok == EligibleAsset(a.no_bid, a.no_ask)
    IN IF a.tte_seconds > tte_max_seconds THEN <<>>
       ELSE IF yes_ok /\ no_ok
            THEN IF Abs(2 * a.yes_bid - (price_min + price_max))
                      <= Abs(2 * a.no_bid - (price_min + price_max))
                 THEN <<"YES", a.yes_bid>> ELSE <<"NO", a.no_bid>>
       ELSE IF yes_ok THEN <<"YES", a.yes_bid>>
       ELSE IF no_ok THEN <<"NO", a.no_bid>>
       ELSE <<>>

\* C27: pick_entry_side_price_only returns no entry when the time to expiry
\* exceeds the cutoff; otherwise the single eligible asset at its bid, or of
\* two eligible assets the one whose bid is closer to the middle of the
\* band (YES on a tie), or no entry when none is eligible.
C27_PickIsEntryRule ==
    picked # NotPicked => picked = Entry(pick_args)

---------------------------------------------------------------------------
\* The sizer inside the engine.

\* C28: on_trade_closed(won=true) lowers bet_frac by exactly one step, or
\* to bet_frac_min when the step would pass it; on_trade_closed(won=false)
\* raises it by exactly one step, or to bet_frac_max when the step would
\* pass it; nothing else the engine does changes bet_frac.
C28_BetFracSteps ==
    [][/\ closed_won' = closed_won + 1
            => bet_frac' = IF bet_frac - risk.bet_frac_step < risk.bet_frac_min
                           THEN risk.bet_frac_min
                           ELSE bet_frac - risk.bet_frac_step
       /\ closed_lost' = closed_lost + 1
            => bet_frac' = IF bet_frac + risk.bet_frac_step > risk.bet_frac_max
                           THEN risk.bet_frac_max
                           ELSE bet_frac + risk.bet_frac_step
       /\ (closed_won' = closed_won /\ closed_lost' = closed_lost)
            => bet_frac' = bet_frac
       /\ closed_won' + closed_lost' <= closed_won + closed_lost + 1]_vars

\* step() has just closed a trade as won where one step down would have
\* passed bet_frac_min
C28_Witness ==
    /\ pc = "run" /\ sleep_left = SleepStep
    /\ pos = <<>>
    /\ closed_won = 1 /\ closed_lost = 0
    /\ risk.bet_frac_start - risk.bet_frac_step < risk.bet_frac_min
    /\ bet_frac = risk.bet_frac_min

---------------------------------------------------------------------------
\* Order statuses the engine reads.

\* an id the ledger has not given out
UnknownId == Len(orders) + 1

\* the engine is in the EntryPending state
PendingState == pos # <<>> /\ pos[1].fill_price = None

\* what get_order answers for the entry order of the position
EntryStatus ==
    get_order(snapshot(Ledger, price_cache), price_cache,
              pos[1].entry_order_id)[2].status

\* the result r of a step leaves the position p as it is, does nothing to
\* the ledger but the sweep of its get_order (after the sweep of the loop's
\* snapshot), and calls no sizer update
Untouched(r, p) ==
    /\ r.pos = <<p>>
    /\ r.L = _maybe_fill_all(snapshot(Ledger, price_cache), price_cache)
    /\ r.kinds = <<>>
    /\ r.won = 0 /\ r.lost = 0
    /\ r.bet_frac = bet_frac
    /\ r.pc = "run"

\* C29: get_order on an id the ledger does not know answers "unknown" and
\* does nothing but its sweep; the engine takes "unknown", like every status
\* of its entry or TP order other than "filled", as still pending: it makes
\* no transition and no sizer update because of it.
C29_UnknownIsPending ==
    /\ [](/\ get_order(Ledger, price_cache, UnknownId)
               = <<snapshot(Ledger, price_cache), [status |-> "unknown"]>>
          /\ (PendingState /\ ~EntryTtlExpired(pos[1]))
                => LET p == [pos[1] EXCEPT !.entry_order_id = UnknownId]
                   IN Untouched(StepEntryPending(snapshot(Ledger, price_cache), p), p)
          /\ (FilledState /\ ~BidUnderSl)
                => LET p == [pos[1] EXCEPT !.tp_order_id = UnknownId]
                   IN Untouched(StepFilled(snapshot(Ledger, price_cache), p), p))
    /\ [][ /\ (StepStarts /\ BooksPresent(book, market) /\ PendingState
                /\ ~EntryTtlExpired(pos[1]) /\ EntryStatus # "filled")
              => /\ pos' = pos
                 /\ orders' = Swept
                 /\ placed_by' = placed_by
                 /\ bet_frac' = bet_frac
                 /\ closed_won' = closed_won /\ closed_lost' = closed_lost
           /\ (StepStarts /\ FilledState /\ TpStatus # "filled")
              => /\ closed_won' = closed_won
                 /\ pos' = pos \/ BidUnderSl
                 /\ bet_frac' = bet_frac \/ closed_lost' = closed_lost + 1]_vars

\* a step() has just run on a pending entry that the books did not fill
\* and whose TTL has not passed, and the entry is still pending
C29_Witness ==
    /\ pc = "run" /\ sleep_left = SleepStep
    /\ PendingState
    /\ BooksPresent(book, market)
    /\ pos[1].entry_age > 0 /\ ~EntryTtlExpired(pos[1])
    /\ orders[pos[1].entry_order_id].status = "open"
    /\ orders[pos[1].entry_order_id].age >= fill_delay_sec

---------------------------------------------------------------------------
\* Who writes the books.

\* the loop task takes this step: a step() or its resumption, a rotation, or
\* the first start_new_market
LoopTaskStep ==
    /\ sleep_left = 0
    /\ sleep_left' # 0 \/ market' # market \/ pc' # pc

\* C30: the bid/ask entries of the shared price map and of the engine's
\* book are written by the feed callback only; the trading loop, step() and
\* the rotation, never writes or clears them.
C30_OnlyFeedWritesBooks ==
    [][LoopTaskStep => (price_cache' = price_cache /\ book' = book)]_vars

\* C30, amended: the entries are written by the feed callback and by the
\* rotation only.  step() never writes them; start_new_market, once its
\* scan has found a market, clears the price map and builds a new engine
\* whose book is empty.
C30_FeedAndRotationWriteBooks ==
    [][LoopTaskStep =>
          IF market' # market
          THEN /\ price_cache' = [a \in Assets |-> NoTop]
               /\ book' = [a \in Assets |-> NoTop]
          ELSE price_cache' = price_cache /\ book' = book]_vars

\* the loop has just rotated to the second market after the first engine
\* traded on its books, and the price map and the book are empty
C30_Witness ==
    /\ market = 2 /\ pc = "run" /\ sleep_left = SleepRollover
    /\ \E i \in DOMAIN placed_by : placed_by[i].eng = 1
    /\ price_cache = [a \in Assets |-> NoTop]
    /\ book = [a \in Assets |-> NoTop]

---------------------------------------------------------------------------
\* The end of step().

\* the exit sells placed for the position since its TP order
ExitsOfPosition ==
    {i \in DOMAIN orders : placed_by[i].kind = "exit" /\ i > pos[1].tp_order_id}

\* how many more times a step() suspended in its exit polls can be resumed
\* at most: the polls left for this exit order, those of the re-priced one,
\* and the return
ResumesLeft ==
    IF pc = "sl1" THEN 2 * PollCount + 1 - polls
    ELSE IF pc = "sl2" THEN PollCount + 1 - polls
    ELSE 0

\* C31: every step() ends whatever the feed and the ledger do: its exit path
\* places at most two exit sells, the first and one re-price, and polls
\* each at most 10 times; every resumption brings the return nearer.
C31_StepEnds ==
    /\ [](/\ polls <= PollCount
          /\ pc = "sl1" => Cardinality(ExitsOfPosition) = 1
          /\ pc = "sl2" => Cardinality(ExitsOfPosition) = 2
          /\ (pc = "run" /\ FilledState) => ExitsOfPosition = {}
          /\ ResumesLeft >= 0)
    /\ [][ /\ (pc \in {"sl1", "sl2"} /\ StepTaken) => ResumesLeft' < ResumesLeft
           /\ (pc = "run" /\ StepTaken)
                 => Cardinality({i \in NewOrders : placed_by'[i].kind = "exit"}) <= 1
           /\ (pc \in {"sl1", "sl2"} /\ pc' = pc) => NewOrders = {}]_vars

\* the step() has polled its re-priced exit order for the tenth time
C31_Witness ==
    /\ pc = "sl2"
    /\ polls = PollCount
    /\ Cardinality(ExitsOfPosition) = 2
    /\ \A i \in ExitsOfPosition : orders[i].status = "open"

---------------------------------------------------------------------------
\* Rotation.

\* the loop replaces the engine of one window by the engine of the next
Rotates == market >= 1 /\ market' = market + 1

\* C32: a rotation replaces the engine and its market without cancelling an
\* order or selling inventory of the old window: cash, inventory, cost
\* basis, realized P&L, the counters and every order are after it what the
\* loop's snapshot() found before it, and the assets of the old market stay
\* what they were.
C32_RotationKeepsLedger ==
    [][Rotates =>
          /\ <<cash, inv, avg_cost, realized_pnl, wins, losses, orders>>'
                = LET L == snapshot(Ledger, price_cache)
                  IN <<L.cash, L.inv, L.avg_cost, L.realized_pnl, L.wins, L.losses,
                       L.orders>>
          /\ \A i \in DOMAIN orders :
                orders[i].age < fill_delay_sec => orders'[i] = orders[i]
          /\ placed_by' = placed_by
          /\ pos' = <<>>
          /\ {yes_asset(market'), no_asset(market')}
                \cap {yes_asset(market), no_asset(market)} = {}]_vars

\* the loop has just rotated while the old window's position held shares
\* and its TP order was open, and both are still there
C32_Witness ==
    /\ market = 2 /\ pc = "run" /\ sleep_left = SleepRollover
    /\ inv[yes_asset(1)] > 0
    /\ \E i \in DOMAIN orders :
          /\ placed_by[i] = [eng |-> 1, kind |-> "tp"]
          /\ orders[i].status = "open"

---------------------------------------------------------------------------
\* Restart on a saved state file.

\* C33: a restart that loads a state file written by a successful save gives
\* the new ledger the cash, inventory, cost basis, realized P&L and win/loss
\* counts of the file, an empty order table, and a sizer whose bet fraction
\* is the configured start value.
C33_RestartLoadsSaved ==
    /\ [](file.kind \in {"missing", "data"} /\ (file.kind = "data" => file.bad = 0))
    /\ [][ /\ (loads' = loads + 1 /\ file.kind = "data") =>
                /\ cash' = file.cash
                /\ inv' = file.inv
                /\ avg_cost' = file.avg_cost
                /\ realized_pnl' = file.realized_pnl
                /\ wins' = file.wins
                /\ losses' = file.losses
                /\ orders' = <<>>
                /\ bet_frac' = risk.bet_frac_start
           /\ (loads' = loads + 1 /\ file.kind = "missing") =>
                /\ LedgerState' = FreshState
                /\ orders' = <<>>
                /\ bet_frac' = risk.bet_frac_start ]_vars

\* a process that held shares and had moved its bet fraction with one closed
\* trade has been restarted: the shares and the cash of the file are back,
\* the orders are gone and the bet fraction is at its start
C33_Witness ==
    /\ loads = 1
    /\ file.kind = "data" /\ file.inv[1] > 0 /\ file.cash < StartCash
    /\ inv = file.inv /\ cash = file.cash /\ avg_cost = file.avg_cost
    /\ orders = <<>>
    /\ closed_won + closed_lost = 1
    /\ on_trade_closed(risk.bet_frac_start, closed_won = 1, risk) # risk.bet_frac_start
    /\ bet_frac = risk.bet_frac_start

---------------------------------------------------------------------------
\* round_to_tick.

\* C34: for a tick with 0 < tick <= 0.5 and any price x, round_to_tick(x, tick)
\* lies in [tick, 1 - tick] and rounding it again gives the same price; for
\* tick <= 0 the price comes back unchanged.
C34_RoundToTickIdempotent ==
    ticked # NotTicked =>
       LET tk == tick_args.tick
       IN IF tk <= 0 THEN ticked = tick_args.x
          ELSE /\ RatLe(RatInt(tk), ticked)
               /\ RatLe(ticked, RatInt(One - tk))
               /\ round_to_tick(ticked, tk) = ticked

\* the range part of C34 alone
RoundToTickInRange ==
    (ticked # NotTicked /\ tick_args.tick > 0) =>
       RatLe(RatInt(tick_args.tick), ticked) /\ RatLe(ticked, RatInt(One - tick_args.tick))

---------------------------------------------------------------------------
\* The books of the ledger.

\* sum over the assets of inventory * average cost
HeldAtCost ==
    LET sum[a \in 0 .. Cardinality(Assets)] ==
           IF a = 0 THEN RatInt(0)
           ELSE RatAdd(sum[a - 1], RatMul(RatInt(inv[a]), avg_cost[a]))
    IN sum[Cardinality(Assets)]

\* C35: in a ledger started fresh, after any sequence of placements,
\* cancels, sweeps and book updates, cash plus the inventory held at its
\* average cost equals the start cash plus the realized P&L.
C35_BooksBalance ==
    LET lhs == RatAdd(RatInt(cash), HeldAtCost)
        rhs == RatAdd(RatInt(StartCash), realized_pnl)
    IN RatLe(lhs, rhs) /\ RatLe(rhs, lhs)

\* shares are held at a blended cost after part of the holding was sold at a
\* profit or a loss
C35_Witness ==
    \E a \in Assets :
       /\ inv[a] > 0
       /\ realized_pnl # RatInt(0)
       /\ cash # StartCash
       /\ \E i \in DOMAIN orders :
             orders[i].status = "filled" /\ orders[i].side = "sell"
                /\ orders[i].asset_id = a

---------------------------------------------------------------------------
\* Cash.

\* the orders a step fills
FilledNow == {i \in DOMAIN orders : orders[i].status = "open"
                                    /\ orders'[i].status = "filled"}

\* what the buys among the first n orders that a step fills cost together
CostOfBuys(n) ==
    LET sum[k \in 0 .. n] ==
           IF k = 0 THEN 0
           ELSE sum[k - 1] + (IF k \in FilledNow /\ orders[k].side = "buy"
                              THEN orders[k].price * orders[k].size ELSE 0)
    IN sum[n]

---------------------------------------------------------------------------
\* Orders of finished positions.

\* C36: when the engine is between steps with no position, every order it
\* placed (for positions it has closed or dropped) is filled or canceled:
\* no TP or exit sell of a finished position rests open in the ledger.
C36_FinishedOrdersTerminal ==
    (pc = "run" /\ pos = <<>>) =>
       \A i \in DOMAIN orders :
          placed_by[i].eng = market => orders[i].status \in {"filled", "canceled"}

---------------------------------------------------------------------------
\* The bet fraction across rotations.

\* C38: within one run the bet fraction changes only through
\* on_trade_closed: a rotation to a new window carries it over unchanged.
C38_BetFracCarriedOver ==
    [][ /\ bet_frac' # bet_frac
             => closed_won' + closed_lost' = closed_won + closed_lost + 1
        /\ Rotates => bet_frac' = bet_frac ]_vars

---------------------------------------------------------------------------
\* Entries and the end of the market.

\* C39: an entry buy is placed only while the market has not expired: no
\* step() that runs at or after end_ts, the rollover grace period included,
\* places one.
C39_NoEntryAfterEnd ==
    [][\A i \in NewOrders : placed_by'[i].kind = "entry" => tte > 0]_vars

---------------------------------------------------------------------------
\* The status a failed run leaves.

\* C40: when the run loop ends because of an exception, the last snapshot
\* it publishes has status "error" and carries the error text, and that is
\* what a consumer waiting in wait_for_update comes to see.
C40_ErrorIsFinalStatus ==
    (\E i \in DOMAIN rt_pubs : rt_pubs[i] = "error")
       => /\ rt_snapshot.status = "error"
          /\ rt_snapshot.error
          /\ rt_pubs[Len(rt_pubs)] = "error"

\* no consumer ever gets the "error" snapshot from wait_for_update
ErrorNeverSeen == seen.status # "error"

====
